---------------------------- MODULE Spec2Model ----------------------------
(***************************************************************************)
(* The risk-control weekly report generator (src/unnamed/part_000).        *)
(*                                                                         *)
(* A JavaScript string is a sequence of one-character strings, so that     *)
(* trim, split and the regular expressions of the source are computed      *)
(* character by character; a character outside ASCII is written as its     *)
(* UTF-16 code unit, "u62D2".  A CsvRow is a function from the column names *)
(* it holds to strings; a column the row lacks is outside its DOMAIN.  A   *)
(* JavaScript Map is the sequence of its entries in insertion order.       *)
(***************************************************************************)
EXTENDS Integers, Sequences, FiniteSets, TLC

VARIABLES
    file,            \* useState file: 0 (null) or the number of a file of FILES
    encoding,        \* useState encoding
    rawData,         \* useState rawData: the parsed rows
    availableDates,  \* useState availableDates
    selectedDate,    \* useState selectedDate
    loading,         \* useState loading
    error,           \* useState error: Null or the name of a message
    parsing,         \* the Papa.parse call in flight, or NoParse
    report,          \* the useMemo value: a ReportData or NullReport
    rows,            \* the argument of a direct call of analyzeRows
    stats,           \* what that call returned, or NoStats before it
    args,            \* the arguments of a direct call of a helper function
    result           \* what that call returned, or NoResult before it

vars == <<file, encoding, rawData, availableDates, selectedDate, loading,
          error, parsing, report, rows, stats, args, result>>

appVars == <<file, encoding, rawData, availableDates, selectedDate, loading,
             error, parsing, report>>

\* the variables of the direct calls
callVars == <<rows, stats, args, result>>

-----------------------------------------------------------------------------
(* JavaScript values *)

Undefined == <<"undefined">>
Null == <<"null">>

\* !!v of a string-or-undefined value
Truthy(v) == v # Undefined /\ v # Null /\ v # <<>>

SetMin(S) == CHOOSE x \in S : \A y \in S : x <= y
SetMax(S) == CHOOSE x \in S : \A y \in S : x >= y

\* the characters String.prototype.trim strips and \s matches
WhiteSpace == {" ", "\t", "\n", "\r"}

Trim(s) ==
    LET keep == {i \in 1..Len(s) : s[i] \notin WhiteSpace}
    IN  IF keep = {} THEN <<>> ELSE SubSeq(s, SetMin(keep), SetMax(keep))

\* v?.trim()
OptTrim(v) == IF v = Undefined THEN Undefined ELSE Trim(v)

\* row[col]
RowGet(row, col) == IF col \in DOMAIN row THEN row[col] ELSE Undefined

\* String.prototype.split with a string separator
RECURSIVE Split(_, _)
Split(s, sep) ==
    LET hits == {i \in 1..(Len(s) - Len(sep) + 1) :
                    SubSeq(s, i, i + Len(sep) - 1) = sep}
    IN  IF hits = {} THEN <<s>>
        ELSE LET i == SetMin(hits)
             IN  <<SubSeq(s, 1, i - 1)>>
                    \o Split(SubSeq(s, i + Len(sep), Len(s)), sep)

-----------------------------------------------------------------------------
(* Constants and mappings *)

COL_TIME == <<"u5F02", "u6B65", "u673A", "u5BA1", "u5165", "u5BA1", "u65F6", "u95F4">>
COL_SYNC_STATUS == <<"u540C", "u6B65", "u673A", "u5BA1", "u72B6", "u6001">>
COL_ASYNC_STATUS == <<"u5F02", "u6B65", "u673A", "u5BA1", "u72B6", "u6001">>
COL_HUMAN_STATUS == <<"u4EBA", "u5BA1", "u72B6", "u6001">>
COL_SYNC_STRATEGY == <<"u540C", "u6B65", "u673A", "u5BA1", "u547D", "u4E2D", "u7B56", "u7565">>
COL_ASYNC_STRATEGY == <<"u5F02", "u6B65", "u673A", "u5BA1", "u547D", "u4E2D", "u7B56", "u7565">>
COL_TAGS == <<"u4EBA", "u5BA1", "u6807", "u7B7E">>

REJECT == <<"u62D2", "u7EDD">>
PENDING == <<"u5F85", "u5BA1">>

STRATEGY_MAPPING ==
    (<<"h", "u", "i", "b", "o", "x", "i", "n", "g", "_", "w", "e", "n", "x", "i", "n", "_", "m", "o", "d", "e", "l">>
        :> <<"h", "u", "i", "b", "o", "x", "i", "n", "g", "u6587", "u5FC3", "u5927", "u6A21", "u578B">>)
    @@
    (<<"s", "e", "r", "v", "i", "c", "e", "_", "d", "i", "g", "i", "t", "a", "l", "_", "h", "u", "m", "a", "n", "_", "c", "h", "e", "c", "k">>
        :> <<"u6570", "u5B57", "u4EBA", "u7269", "u6599", "u673A", "u5BA1">>)
    @@
    (<<"s", "e", "r", "v", "i", "c", "e", "_", "s", "y", "n", "c", "_", "w", "o", "r", "d">>
        :> <<"u4E1A", "u52A1", "u7EBF", "u8BCD", "u8868", "u7B56", "u7565">>)
    @@
    (<<"q", "r", "_", "c", "o", "d", "e", "_", "d", "e", "t", "e", "c", "t">>
        :> <<"u4E8C", "u7EF4", "u7801", "u56FE", "u7247", "u8BC6", "u522B", "u6A21", "u578B">>)
    @@
    (<<"s", "e", "n", "s", "i", "t", "i", "v", "e", "_", "i", "m", "g", "_", "m", "o", "d", "e", "l">>
        :> <<"u654F", "u611F", "u56FE", "u7247", "u6A21", "u578B">>)
    @@
    (<<"i", "m", "g", "_", "o", "c", "r", "_", "s", "t", "r", "a", "t", "e", "g", "y">>
        :> <<"u56FE", "u7247", "o", "c", "r", "u7B56", "u7565">>)
    @@
    (<<"s", "e", "r", "v", "i", "c", "e", "_", "v", "a", "r", "i", "a", "n", "t", "_", "w", "o", "r", "d", "_", "c", "h", "e", "c", "k">>
        :> <<"u4E60", "u5F6D", "u53D8", "u4F53", "u8BCD", "u8868">>)
    @@
    (<<"d", "u", "x", "i", "a", "o", "d", "i", "a", "n", "_", "r", "e", "v", "i", "e", "w">>
        :> <<"u5EA6", "u5C0F", "u5E97", "u5BA1", "u6838">>)
    @@
    (<<"s", "e", "r", "v", "i", "c", "e", "_", "s", "h", "o", "r", "t", "_", "t", "e", "x", "t", "_", "c", "h", "e", "c", "k">>
        :> <<"u77ED", "u6587", "u672C", "u673A", "u5BA1">>)
    @@
    (<<"s", "e", "n", "s", "i", "t", "i", "v", "e", "_", "h", "a", "r", "d", "f", "a", "c", "e">>
        :> <<"u654F", "u611F", "u4EBA", "u8138", "u6A21", "u578B">>)
    @@
    (<<"s", "e", "r", "v", "i", "c", "e", "_", "w", "o", "r", "d", "_", "3", "s", "_", "c", "h", "e", "c", "k">>
        :> <<"3", "S", "u654F", "u611F", "u8BCD", "u7B56", "u7565">>)

\* STRATEGY_MAPPING[cleanName] || cleanName
MapStrategyName(cleanName) ==
    IF cleanName \in DOMAIN STRATEGY_MAPPING
    THEN STRATEGY_MAPPING[cleanName] ELSE cleanName

WEEKLY_KEY == <<"A", "L", "L", "_", "W", "E", "E", "K", "L", "Y", "_", "R", "E", "P", "O", "R", "T">>

\* the tag list keeps this many entries
TAG_LIST_LIMIT == 35

\* the words a tag token may not be
STOP_WORDS ==
    {<<"u901A", "u8FC7">>,
     <<"u62D2", "u7EDD">>,
     <<"u5F85", "u5BA1">>,
     <<"u9001", "u5BA1">>,
     <<"n", "u", "l", "l">>,
     <<"u65E0">>,
     <<"u5185", "u5BB9", "u6D89", "u53CA">>,
     <<"u8BF7", "u4FEE", "u6539", "u540E", "u91CD", "u8BD5">>}

\* every entry of the table is commented out in the source
TAG_MERGE_MAPPING == [t \in {} |-> <<>>]

MergeTag(tag) ==
    IF tag \in DOMAIN TAG_MERGE_MAPPING THEN TAG_MERGE_MAPPING[tag] ELSE tag

-----------------------------------------------------------------------------
(* extractDate *)

Digits == {"0", "1", "2", "3", "4", "5", "6", "7", "8", "9"}
DateSep1 == {".", "-", "/", "u5E74"}
DateSep2 == {".", "-", "/", "u6708"}

IsDigitAt(s, i) == i >= 1 /\ i <= Len(s) /\ s[i] \in Digits

\* the length of the month group when the pattern matches at i, else 0
MonthLenAt(s, i) ==
    IF ~(/\ \A k \in 0..3 : IsDigitAt(s, i + k)
         /\ i + 4 <= Len(s) /\ s[i + 4] \in DateSep1
         /\ IsDigitAt(s, i + 5))
    THEN 0
    ELSE IF /\ IsDigitAt(s, i + 6)
            /\ i + 7 <= Len(s) /\ s[i + 7] \in DateSep2
            /\ IsDigitAt(s, i + 8)
         THEN 2
         ELSE IF /\ i + 6 <= Len(s) /\ s[i + 6] \in DateSep2
                 /\ IsDigitAt(s, i + 7)
              THEN 1
              ELSE 0

\* a group of digits left as it was matched
PadStartNone(g) == g

\* padStart(2, '0') of a group of one or two digits
PadStart2(g) == IF Len(g) < 2 THEN <<"0">> \o g ELSE g

extractDate(dateStr) ==
    IF ~Truthy(dateStr) THEN Null
    ELSE LET starts == {i \in 1..Len(dateStr) : MonthLenAt(dateStr, i) > 0}
         IN  IF starts = {} THEN Null
             ELSE LET i == SetMin(starts)
                      ml == MonthLenAt(dateStr, i)
                      ds == i + 5 + ml + 1
                      dl == IF IsDigitAt(dateStr, ds + 1) THEN 2 ELSE 1
                      year == SubSeq(dateStr, i, i + 3)
                      month == PadStart2(SubSeq(dateStr, i + 5, i + 4 + ml))
                      day == PadStart2(SubSeq(dateStr, ds, ds + dl - 1))
                  IN  year \o <<"-">> \o month \o <<"-">> \o day


-----------------------------------------------------------------------------
(* analyzeRows *)

\* the character class [,\s，] of the tag delimiter
TagSepClass == WhiteSpace \cup {",", "uFF0C"}

\* the length of the match of /&&|\$\$|\+|[,\s，]+/ that starts at i, else 0
TagDelimLenAt(s, i) ==
    IF i + 1 <= Len(s) /\ s[i] = "&" /\ s[i + 1] = "&" THEN 2
    ELSE IF i + 1 <= Len(s) /\ s[i] = "$" /\ s[i + 1] = "$" THEN 2
    ELSE IF s[i] = "+" THEN 1
    ELSE IF s[i] \in TagSepClass
         THEN LET stop == {j \in (i + 1)..(Len(s) + 1) :
                              j = Len(s) + 1 \/ s[j] \notin TagSepClass}
              IN  SetMin(stop) - i
         ELSE 0

\* rawTags.split(/&&|\$\$|\+|[,\s，]+/)
RECURSIVE TagSplit(_)
TagSplit(s) ==
    LET hits == {i \in 1..Len(s) : TagDelimLenAt(s, i) > 0}
    IN  IF hits = {} THEN <<s>>
        ELSE LET i == SetMin(hits)
             IN  <<SubSeq(s, 1, i - 1)>>
                    \o TagSplit(SubSeq(s, i + TagDelimLenAt(s, i), Len(s)))

Inc(flag) == IF flag THEN 1 ELSE 0

NewStrategyStats(strategyName) ==
    [name |-> strategyName, hitCount |-> 0, humanReviewCount |-> 0,
     pendingCount |-> 0, violationCount |-> 0]

\* a strategy entry whose review count follows the violations alone
BumpStrategyDecidedOnly(s, isHumanSent, isHumanPending, isHumanViolation) ==
    [s EXCEPT !.hitCount = @ + 1,
              !.humanReviewCount = @ + Inc(isHumanViolation),
              !.pendingCount = @ + Inc(isHumanPending),
              !.violationCount = @ + Inc(isHumanViolation)]

\* a strategy entry whose violation count follows every reviewed row
BumpStrategyViolationPerReview(s, isHumanSent, isHumanPending, isHumanViolation) ==
    [s EXCEPT !.hitCount = @ + 1,
              !.humanReviewCount = @ + Inc(isHumanSent),
              !.pendingCount = @ + Inc(isHumanPending),
              !.violationCount = @ + Inc(isHumanSent)]

\* one strategy entry after a hit in a row with the given human status
BumpStrategy(s, isHumanSent, isHumanPending, isHumanViolation) ==
    [s EXCEPT !.hitCount = @ + 1,
              !.humanReviewCount = @ + Inc(isHumanSent),
              !.pendingCount = @ + Inc(isHumanPending),
              !.violationCount = @ + Inc(isHumanViolation)]

\* the body of allStrategies.forEach for one raw name
CountStrategy(strategyMap, rawName, isHumanSent, isHumanPending, isHumanViolation) ==
    LET cleanName == Trim(rawName)
    IN  IF cleanName = <<>> THEN strategyMap
        ELSE LET strategyName == MapStrategyName(cleanName)
                 m == IF \E i \in 1..Len(strategyMap) :
                            strategyMap[i].name = strategyName
                      THEN strategyMap
                      ELSE Append(strategyMap, NewStrategyStats(strategyName))
             IN  [i \in 1..Len(m) |->
                    IF m[i].name = strategyName
                    THEN BumpStrategy(m[i], isHumanSent, isHumanPending,
                                      isHumanViolation)
                    ELSE m[i]]

RECURSIVE CountStrategies(_, _, _, _, _, _)
CountStrategies(strategyMap, allStrategies, k, isHumanSent, isHumanPending, isHumanViolation) ==
    IF k > Len(allStrategies) THEN strategyMap
    ELSE CountStrategies(
            CountStrategy(strategyMap, allStrategies[k], isHumanSent,
                          isHumanPending, isHumanViolation),
            allStrategies, k + 1, isHumanSent, isHumanPending, isHumanViolation)

\* the split of src/index.tsx, line 159: only the first name counts
FirstStrategyOnly(rawStrategyValue) ==
    <<Split(rawStrategyValue, <<"&", "&">>)[1]>>

\* rawStrategyValue.split('&&')
AllStrategies(rawStrategyValue) == Split(rawStrategyValue, <<"&", "&">>)

\* the raw strategy value of a row read from both columns at once
RawStrategyValueCombined(row) ==
    LET sync == OptTrim(RowGet(row, COL_SYNC_STRATEGY))
        async == OptTrim(RowGet(row, COL_ASYNC_STRATEGY))
    IN  IF ~Truthy(sync) THEN async
        ELSE IF ~Truthy(async) THEN sync
        ELSE sync \o <<"&", "&">> \o async

\* the raw strategy value of a row: the synchronous column, else the asynchronous
RawStrategyValue(row) ==
    LET sync == OptTrim(RowGet(row, COL_SYNC_STRATEGY))
    IN  IF ~Truthy(sync) THEN OptTrim(RowGet(row, COL_ASYNC_STRATEGY)) ELSE sync

\* the tags of a row counted once per token, as src/index.tsx counts them
RECURSIVE EveryTagToken(_, _, _)
EveryTagToken(unique, tokens, k) ==
    IF k > Len(tokens) THEN unique
    ELSE LET tag == Trim(tokens[k])
         IN  EveryTagToken(
                IF tag = <<>> \/ tag \in STOP_WORDS
                THEN unique ELSE Append(unique, MergeTag(tag)),
                tokens, k + 1)

\* isInvalid of a trimmed tag token without the list of words
IsInvalidTagEmptyOnly(tag) == tag = <<>>

\* isInvalid of a trimmed tag token
IsInvalidTag(tag) == tag = <<>> \/ tag \in STOP_WORDS

\* uniqueTagsInRow after tokens k.. are added: a Set keeps insertion order
RECURSIVE UniqueTags(_, _, _)
UniqueTags(unique, tokens, k) ==
    IF k > Len(tokens) THEN unique
    ELSE LET tag == Trim(tokens[k])
             merged == MergeTag(tag)
         IN  UniqueTags(
                IF IsInvalidTag(tag) \/ \E i \in 1..Len(unique) : unique[i] = merged
                THEN unique ELSE Append(unique, merged),
                tokens, k + 1)

\* tagMap.set(tag, (tagMap.get(tag) || 0) + 1)
CountTag(tagMap, tag) ==
    IF \E i \in 1..Len(tagMap) : tagMap[i][1] = tag
    THEN [i \in 1..Len(tagMap) |->
            IF tagMap[i][1] = tag THEN <<tag, tagMap[i][2] + 1>> ELSE tagMap[i]]
    ELSE Append(tagMap, <<tag, 1>>)

RECURSIVE CountTags(_, _, _)
CountTags(tagMap, unique, k) ==
    IF k > Len(unique) THEN tagMap
    ELSE CountTags(CountTag(tagMap, unique[k]), unique, k + 1)

\* the tags a row adds to: String(row[tags] || '') split, filtered, deduplicated
RowTags(row) ==
    LET v == RowGet(row, COL_TAGS)
        rawTags == IF Truthy(v) THEN v ELSE <<>>
    IN  UniqueTags(<<>>, TagSplit(rawTags), 1)

\* a row counts as rejected by the synchronous review alone
IsSyncRejectOnly(row) == OptTrim(RowGet(row, COL_SYNC_STATUS)) = REJECT

IsMachineReject(row) ==
    LET isSyncReject == OptTrim(RowGet(row, COL_SYNC_STATUS)) = REJECT
        isAsyncReject == OptTrim(RowGet(row, COL_ASYNC_STATUS)) = REJECT
    IN  isSyncReject \/ isAsyncReject

\* the body of rows.forEach: the counters and maps after one more row
AnalyzeRow(acc, row) ==
    LET humanStatus == OptTrim(RowGet(row, COL_HUMAN_STATUS))
        isHumanSent == Truthy(humanStatus)
        isHumanViolation == humanStatus = REJECT
        isHumanPending == humanStatus = PENDING
        rawStrategyValue == RawStrategyValue(row)
    IN  [machineRejectCount |-> acc.machineRejectCount + Inc(IsMachineReject(row)),
         recallCount |-> acc.recallCount + Inc(isHumanSent),
         humanViolationCount |-> acc.humanViolationCount + Inc(isHumanViolation),
         strategyMap |->
            IF Truthy(rawStrategyValue)
            THEN CountStrategies(acc.strategyMap, AllStrategies(rawStrategyValue),
                                 1, isHumanSent, isHumanPending, isHumanViolation)
            ELSE acc.strategyMap,
         tagMap |->
            IF isHumanViolation
            THEN CountTags(acc.tagMap, RowTags(row), 1)
            ELSE acc.tagMap]

\* rows.forEach over rs[lo..hi], in order.  The range is halved, and the first
\* half is evaluated (its row count read) before the second half starts, so
\* that the evaluation stays shallow on a file of a thousand rows.
RECURSIVE AnalyzeRange(_, _, _, _)
AnalyzeRange(acc, rs, lo, hi) ==
    IF lo > hi THEN acc
    ELSE IF lo = hi THEN AnalyzeRow(acc, rs[lo])
    ELSE LET mid == (lo + hi) \div 2
             first == AnalyzeRange(acc, rs, lo, mid)
         IN  IF first.recallCount >= 0
             THEN AnalyzeRange(first, rs, mid + 1, hi)
             ELSE first

\* the black-sample formula of src/index.tsx, line 205
BlackSampleOfRecall(acc) == acc.recallCount + acc.humanViolationCount

\* const blackSampleTotal = machineRejectCount + humanViolationCount
BlackSampleTotal(acc) == acc.machineRejectCount + acc.humanViolationCount

analyzeRows(rs) ==
    LET acc == AnalyzeRange([machineRejectCount |-> 0, recallCount |-> 0,
                             humanViolationCount |-> 0, strategyMap |-> <<>>,
                             tagMap |-> <<>>], rs, 1, Len(rs))
    IN  [totalRows |-> Len(rs),
         machineRejectCount |-> acc.machineRejectCount,
         recallCount |-> acc.recallCount,
         humanViolationCount |-> acc.humanViolationCount,
         blackSampleTotal |-> BlackSampleTotal(acc),
         strategyMap |-> acc.strategyMap,
         tagMap |-> acc.tagMap]

-----------------------------------------------------------------------------
(* Numbers.  A quotient the code computes in floating point is kept as the *)
(* exact fraction <<numerator, denominator>>.                              *)

RECURSIVE Gcd(_, _)
Gcd(a, b) == IF b = 0 THEN a ELSE Gcd(b, a % b)

\* the numbers that are not finite, written as quotients
NaN == <<0, 0>>
Infinity == <<1, 0>>

\* n / d of two integers >= 0 in lowest terms: 0 / 0 is NaN and n / 0 is Infinity
Frac(n, d) == LET g == Gcd(n, d) IN IF g = 0 THEN NaN ELSE <<n \div g, d \div g>>
FracAdd(x, y) ==
    IF x = Infinity /\ y = Infinity THEN Infinity
    ELSE Frac(x[1] * y[2] + y[1] * x[2], x[2] * y[2])
FracDiv(x, k) == Frac(x[1], x[2] * k)

RECURSIVE Pow10(_)
Pow10(k) == IF k = 0 THEN 1 ELSE 10 * Pow10(k - 1)

DigitChar(k) == <<"0", "1", "2", "3", "4", "5", "6", "7", "8", "9">>[k + 1]

\* String(n) of a natural number
RECURSIVE NatToString(_)
NatToString(n) ==
    IF n < 10 THEN <<DigitChar(n)>>
    ELSE NatToString(n \div 10) \o <<DigitChar(n % 10)>>

\* k as exactly w digits
RECURSIVE PadDigits(_, _)
PadDigits(k, w) ==
    IF w = 0 THEN <<>> ELSE PadDigits(k \div 10, w - 1) \o <<DigitChar(k % 10)>>

\* what a call that throws a RangeError leaves in place of a string
RangeError == <<"RangeError">>

\* val.toFixed(decimals) of a number >= 0.  Number.prototype.toFixed throws a
\* RangeError unless 0 <= decimals <= 100, then spells a number that is not
\* finite, and else gives the nearest multiple of 10^-decimals, the larger one
\* on a tie; the digits of zero are written without a power of ten.
formatDecimal(val, decimals) ==
    IF decimals < 0 \/ decimals > 100 THEN RangeError
    ELSE IF val = NaN THEN <<"N", "a", "N">>
    ELSE IF val = Infinity THEN <<"I", "n", "f", "i", "n", "i", "t", "y">>
    ELSE IF val[1] = 0
    THEN <<"0">> \o (IF decimals = 0 THEN <<>>
                     ELSE <<".">> \o [i \in 1..decimals |-> "0"])
    ELSE LET scale == Pow10(decimals)
             whole == val[1] \div val[2]
             part == (2 * (val[1] % val[2]) * scale + val[2]) \div (2 * val[2])
         IN  NatToString(whole + part \div scale)
                \o (IF decimals = 0 THEN <<>>
                    ELSE <<".">> \o PadDigits(part % scale, decimals))

\* the percentage with the zero denominator left unguarded
formatPercentUnguarded(numerator, denominator, decimals) ==
    formatDecimal(Frac(numerator * 100, denominator), decimals)

formatPercent(numerator, denominator, decimals) ==
    IF denominator = 0 THEN formatDecimal(<<0, 1>>, decimals)
    ELSE formatDecimal(Frac(numerator * 100, denominator), decimals)

-----------------------------------------------------------------------------
(* report: the useMemo of rawData, selectedDate and availableDates *)

NullReport == [mode |-> "null"]

\* the rows of a date together with the rows that have no date
RowsOfDateOrUndated(data, d) ==
    SelectSeq(data, LAMBDA r : extractDate(RowGet(r, COL_TIME)) \in {d, Null})

\* rawData.filter(r => extractDate(r[time]) === d)
RowsOfDate(data, d) ==
    SelectSeq(data, LAMBDA r : extractDate(RowGet(r, COL_TIME)) = d)

\* keep the elements of seq whose index is in keep, in order
RECURSIVE FilterIndex(_, _, _)
FilterIndex(seq, keep, k) ==
    IF k > Len(seq) THEN <<>>
    ELSE (IF k \in keep THEN <<seq[k]>> ELSE <<>>) \o FilterIndex(seq, keep, k + 1)

\* 1000 * Math.max(5, maxVolume): the largest volume itself as the threshold
NoiseThresholdWholeVolume(maxVolume) ==
    IF maxVolume > 5 THEN maxVolume * 1000 ELSE 5000

\* 1000 * Math.max(5, maxVolume * 0.005)
NoiseThreshold(maxVolume) ==
    IF maxVolume * 5 > 5000 THEN maxVolume * 5 ELSE 5000

\* dailyCounts[i] >= threshold
AtOrAboveThreshold(count, maxVolume) == count * 1000 >= NoiseThreshold(maxVolume)

\* dailyCounts[i] > threshold
AboveThreshold(count, maxVolume) == count * 1000 > NoiseThreshold(maxVolume)

\* the noise filter: the dates the weekly report keeps
RetainedDates(data, dates) ==
    IF Len(dates) > 1
    THEN LET dailyCounts == [i \in 1..Len(dates) |-> Len(RowsOfDate(data, dates[i]))]
             maxVolume == SetMax({dailyCounts[i] : i \in 1..Len(dates)})
         IN  IF maxVolume > 100
             THEN FilterIndex(dates,
                              {i \in 1..Len(dates) :
                                  AboveThreshold(dailyCounts[i], maxVolume)}, 1)
             ELSE dates
    ELSE dates

\* a day's entry merged by key alone: the entry of the first day stays as it is
MergeStrategyFirstDay(aggStrategyMap, val) ==
    IF \E i \in 1..Len(aggStrategyMap) : aggStrategyMap[i].name = val.name
    THEN aggStrategyMap
    ELSE Append(aggStrategyMap, val)

\* stats.strategyMap.forEach: one day's entry merged into aggStrategyMap
MergeStrategy(aggStrategyMap, val) ==
    IF \E i \in 1..Len(aggStrategyMap) : aggStrategyMap[i].name = val.name
    THEN [i \in 1..Len(aggStrategyMap) |->
            IF aggStrategyMap[i].name = val.name
            THEN [aggStrategyMap[i] EXCEPT
                    !.hitCount = @ + val.hitCount,
                    !.humanReviewCount = @ + val.humanReviewCount,
                    !.pendingCount = @ + val.pendingCount,
                    !.violationCount = @ + val.violationCount]
            ELSE aggStrategyMap[i]]
    ELSE Append(aggStrategyMap, val)

RECURSIVE MergeStrategies(_, _, _)
MergeStrategies(aggStrategyMap, strategyMap, k) ==
    IF k > Len(strategyMap) THEN aggStrategyMap
    ELSE MergeStrategies(MergeStrategy(aggStrategyMap, strategyMap[k]),
                         strategyMap, k + 1)

\* aggTagMap.set(tag, count): the count of the latest day replaces the sum
MergeTagCountLatestDay(aggTagMap, entry) ==
    IF \E i \in 1..Len(aggTagMap) : aggTagMap[i][1] = entry[1]
    THEN [i \in 1..Len(aggTagMap) |->
            IF aggTagMap[i][1] = entry[1] THEN entry ELSE aggTagMap[i]]
    ELSE Append(aggTagMap, entry)

\* aggTagMap.set(tag, (aggTagMap.get(tag) || 0) + count)
MergeTagCount(aggTagMap, entry) ==
    IF \E i \in 1..Len(aggTagMap) : aggTagMap[i][1] = entry[1]
    THEN [i \in 1..Len(aggTagMap) |->
            IF aggTagMap[i][1] = entry[1]
            THEN <<entry[1], aggTagMap[i][2] + entry[2]>>
            ELSE aggTagMap[i]]
    ELSE Append(aggTagMap, entry)

\* stats.tagMap.forEach over the entries lo..hi, in order
RECURSIVE MergeTags(_, _, _, _)
MergeTags(aggTagMap, tagMap, lo, hi) ==
    IF lo > hi THEN aggTagMap
    ELSE IF lo = hi THEN MergeTagCount(aggTagMap, tagMap[lo])
    ELSE LET mid == (lo + hi) \div 2
             first == MergeTags(aggTagMap, tagMap, lo, mid)
         IN  IF Len(first) >= 0
             THEN MergeTags(first, tagMap, mid + 1, hi)
             ELSE first

\* a day's rate with nothing to guard its denominator
DayRateUnguarded(numerator, denominator) == Frac(numerator * 100, denominator)

\* a day's rate as a percentage, 0 when its denominator is 0
DayRate(numerator, denominator) ==
    IF denominator > 0 THEN Frac(numerator * 100, denominator) ELSE <<0, 1>>

\* the accumulators before the first day
EmptyAgg ==
    [dailyStatsMap |-> <<>>,
     aggTotalRows |-> 0, aggMachineReject |-> 0, aggRecall |-> 0,
     aggHumanViolation |-> 0, aggBlackSample |-> 0,
     sumRecallRate |-> <<0, 1>>, sumPrecision |-> <<0, 1>>,
     sumRiskLevel |-> <<0, 1>>,
     aggStrategyMap |-> <<>>, aggTagMap |-> <<>>]

\* the totals with the black samples of the day recomputed from its recall
SumTotalsOfRecall(agg, dayStats) ==
    [aggTotalRows |-> agg.aggTotalRows + dayStats.totalRows,
     aggMachineReject |-> agg.aggMachineReject + dayStats.machineRejectCount,
     aggRecall |-> agg.aggRecall + dayStats.recallCount,
     aggHumanViolation |-> agg.aggHumanViolation + dayStats.humanViolationCount,
     aggBlackSample |->
        agg.aggBlackSample + dayStats.recallCount + dayStats.humanViolationCount]

\* Sum Totals: the five running totals after one more day
SumTotals(agg, dayStats) ==
    [aggTotalRows |-> agg.aggTotalRows + dayStats.totalRows,
     aggMachineReject |-> agg.aggMachineReject + dayStats.machineRejectCount,
     aggRecall |-> agg.aggRecall + dayStats.recallCount,
     aggHumanViolation |-> agg.aggHumanViolation + dayStats.humanViolationCount,
     aggBlackSample |-> agg.aggBlackSample + dayStats.blackSampleTotal]

\* the body of dates.forEach: the accumulators after day d, whose rows
\* analyzeRows turned into dayStats
AccumulateDay(agg, d, dayStats) ==
    SumTotals(agg, dayStats) @@
    [dailyStatsMap |-> (d :> dayStats) @@ agg.dailyStatsMap,
     sumRecallRate |->
        FracAdd(agg.sumRecallRate,
                DayRate(dayStats.recallCount, dayStats.totalRows)),
     sumPrecision |->
        FracAdd(agg.sumPrecision,
                DayRate(dayStats.humanViolationCount, dayStats.recallCount)),
     sumRiskLevel |->
        FracAdd(agg.sumRiskLevel,
                DayRate(dayStats.blackSampleTotal, dayStats.totalRows)),
     aggStrategyMap |-> MergeStrategies(agg.aggStrategyMap, dayStats.strategyMap, 1),
     aggTagMap |-> MergeTags(agg.aggTagMap, dayStats.tagMap, 1, Len(dayStats.tagMap))]

RECURSIVE AccumulateDays(_, _, _, _)
AccumulateDays(agg, data, dates, k) ==
    IF k > Len(dates) THEN agg
    ELSE AccumulateDays(
            AccumulateDay(agg, dates[k], analyzeRows(RowsOfDate(data, dates[k]))),
            data, dates, k + 1)

\* the elements of seq, element i at position place[i]
Arrange(seq, place) ==
    [p \in 1..Len(seq) |-> seq[CHOOSE i \in 1..Len(seq) : place[i] = p]]

\* the sort with the comparator turned round: stable, ascending
SortAsc(seq) ==
    Arrange(seq,
            [i \in 1..Len(seq) |->
                1 + Cardinality({j \in 1..Len(seq) :
                        \/ seq[j].key < seq[i].key
                        \/ seq[j].key = seq[i].key /\ j < i})])

\* a descending sort that is not stable: equal keys come out in reverse
SortDescTiesReversed(seq) ==
    Arrange(seq,
            [i \in 1..Len(seq) |->
                1 + Cardinality({j \in 1..Len(seq) :
                        \/ seq[j].key > seq[i].key
                        \/ seq[j].key = seq[i].key /\ j > i})])

\* Array.prototype.sort with (a, b) => key(b) - key(a): stable, descending.
\* Element i follows the elements with a larger key and the earlier elements
\* with the same key.
SortDesc(seq) ==
    Arrange(seq,
            [i \in 1..Len(seq) |->
                1 + Cardinality({j \in 1..Len(seq) :
                        \/ seq[j].key > seq[i].key
                        \/ seq[j].key = seq[i].key /\ j < i})])

\* Array.from(map.values()).sort((a, b) => b.hitCount - a.hitCount)
StrategyList(strategyMap) ==
    LET keyed == [i \in 1..Len(strategyMap) |->
                    [key |-> strategyMap[i].hitCount, val |-> strategyMap[i]]]
        sorted == SortDesc(keyed)
    IN  [i \in 1..Len(sorted) |-> sorted[i].val]

\* the list left whole
SliceNothing(list) == list

\* .slice(0, 35)
SliceTop(list) ==
    SubSeq(list, 1, IF Len(list) < TAG_LIST_LIMIT THEN Len(list) ELSE TAG_LIST_LIMIT)

\* Array.from(map.entries()).map(...).sort((a, b) => b.count - a.count).slice(0, 35)
TagList(tagMap) ==
    LET keyed == [i \in 1..Len(tagMap) |->
                    [key |-> tagMap[i][2],
                     val |-> [name |-> tagMap[i][1], count |-> tagMap[i][2]]]]
        sorted == SortDesc(keyed)
    IN  SliceTop([i \in 1..Len(sorted) |-> sorted[i].val])

\* tagList.reduce((acc, curr) => acc + curr.count, 0)
RECURSIVE SumCounts(_, _, _)
SumCounts(tagList, lo, hi) ==
    IF lo > hi THEN 0
    ELSE IF lo = hi THEN tagList[lo].count
    ELSE SumCounts(tagList, lo, (lo + hi) \div 2)
            + SumCounts(tagList, (lo + hi) \div 2 + 1, hi)

\* the fields both modes derive from the truncated tag list
TagFields(tagList) ==
    [tagList |-> tagList, totalTagCount |-> SumCounts(tagList, 1, Len(tagList))]

\* dates.length || 1
DayCount(dates) == IF Len(dates) = 0 THEN 1 ELSE Len(dates)

\* avgStats: the pre-formatted daily averages
AvgStats(agg, dayCount) ==
    [totalRows |-> formatDecimal(Frac(agg.aggTotalRows, dayCount), 2),
     machineRejectCount |-> formatDecimal(Frac(agg.aggMachineReject, dayCount), 3),
     recallCount |-> formatDecimal(Frac(agg.aggRecall, dayCount), 2),
     humanViolationCount |-> formatDecimal(Frac(agg.aggHumanViolation, dayCount), 2),
     blackSampleTotal |-> formatDecimal(Frac(agg.aggBlackSample, dayCount), 0),
     recallRate |-> formatDecimal(FracDiv(agg.sumRecallRate, dayCount), 2) \o <<"%">>,
     precision |-> formatDecimal(FracDiv(agg.sumPrecision, dayCount), 2) \o <<"%">>,
     riskLevel |-> formatDecimal(FracDiv(agg.sumRiskLevel, dayCount), 2) \o <<"%">>]

\* the weekly ReportData built from the retained dates and their accumulators
WeeklyReportData(dates, agg) ==
    [mode |-> "WEEKLY",
     dateLabel |-> <<"u6574", "u4F53", "u5468", "u62A5">>,
     dates |-> dates,
     dailyStatsMap |-> agg.dailyStatsMap,
     totalStats |->
        [totalRows |-> agg.aggTotalRows,
         machineRejectCount |-> agg.aggMachineReject,
         recallCount |-> agg.aggRecall,
         humanViolationCount |-> agg.aggHumanViolation,
         blackSampleTotal |-> agg.aggBlackSample],
     avgStats |-> AvgStats(agg, DayCount(dates)),
     strategyList |-> StrategyList(agg.aggStrategyMap),
     aggTotalRows |-> agg.aggTotalRows,
     aggHumanViolationCount |-> agg.aggHumanViolation,
     aggRecallCount |-> agg.aggRecall]
        @@ TagFields(TagList(agg.aggTagMap))

\* the weekly mode over the dates the noise filter kept
WeeklyOverDates(data, dates) ==
    WeeklyReportData(dates, AccumulateDays(EmptyAgg, data, dates, 1))

WeeklyReport(data, allDates) == WeeklyOverDates(data, RetainedDates(data, allDates))

\* the single-day ReportData built from what analyzeRows returned
SingleReportData(date, dayStats) ==
    [mode |-> "SINGLE",
     dateLabel |-> date,
     singleStats |-> dayStats,
     strategyList |-> StrategyList(dayStats.strategyMap),
     aggTotalRows |-> dayStats.totalRows,
     aggHumanViolationCount |-> dayStats.humanViolationCount,
     aggRecallCount |-> dayStats.recallCount]
        @@ TagFields(TagList(dayStats.tagMap))

SingleReport(data, date) ==
    SingleReportData(date, analyzeRows(RowsOfDate(data, date)))

Report(data, date, allDates) ==
    IF Len(data) = 0 THEN NullReport
    ELSE IF date = WEEKLY_KEY THEN WeeklyReport(data, allDates)
    ELSE SingleReport(data, date)

-----------------------------------------------------------------------------
(* The dates of a parsed file: the complete callback of Papa.parse *)

\* the UTF-16 code unit of a character of a canonical date
CodeUnit(c) == IF c = "-" THEN 45 ELSE 48 + (CHOOSE k \in 0..9 : DigitChar(k) = c)

\* a < b as Array.prototype.sort compares strings without a comparator
RECURSIVE StringLess(_, _)
StringLess(a, b) ==
    IF Len(b) = 0 THEN FALSE
    ELSE IF Len(a) = 0 THEN TRUE
    ELSE IF a[1] # b[1] THEN CodeUnit(a[1]) < CodeUnit(b[1])
    ELSE StringLess(Tail(a), Tail(b))

RECURSIVE SortStrings(_, _, _)
SortStrings(sorted, seq, k) ==
    IF k > Len(seq) THEN sorted
    ELSE LET x == seq[k]
             before == {i \in 1..Len(sorted) : ~StringLess(x, sorted[i])}
             at == IF before = {} THEN 0 ELSE SetMax(before)
         IN  SortStrings(SubSeq(sorted, 1, at) \o <<x>>
                            \o SubSeq(sorted, at + 1, Len(sorted)),
                         seq, k + 1)

\* dates.add(d) unless d is null: a Set keeps insertion order
AddDate(dates, row) ==
    LET d == extractDate(RowGet(row, COL_TIME))
    IN  IF d = Null \/ \E i \in 1..Len(dates) : dates[i] = d
        THEN dates ELSE Append(dates, d)

\* data.forEach over data[lo..hi], in order; halved as AnalyzeRange is
RECURSIVE DateSet(_, _, _, _)
DateSet(dates, data, lo, hi) ==
    IF lo > hi THEN dates
    ELSE IF lo = hi THEN AddDate(dates, data[lo])
    ELSE LET mid == (lo + hi) \div 2
             first == DateSet(dates, data, lo, mid)
         IN  IF Len(first) >= 0
             THEN DateSet(first, data, mid + 1, hi)
             ELSE first

\* Array.from(dates).sort()
SortedDates(data) == SortStrings(<<>>, DateSet(<<>>, data, 1, Len(data)), 1)

\* the first row lacks both key columns
KeyColumnsMissing(firstRow) ==
    /\ ~Truthy(RowGet(firstRow, COL_TIME))
    /\ ~Truthy(RowGet(firstRow, COL_SYNC_STATUS))

-----------------------------------------------------------------------------
(* generateMarkdown: the text is the sequence of its pieces, the literals of *)
(* the template by name and the interpolated values character by character  *)

\* a literal of the template
Text(name) == [kind |-> "text", s |-> <<name>>]
\* an interpolated string
Str(s) == [kind |-> "string", s |-> s]
\* an interpolated count
Num(n) == [kind |-> "count", s |-> NatToString(n)]
\* an interpolated quotient, already formatted
Ratio(s) == [kind |-> "ratio", s |-> s]

\* the value of a string of digits
RECURSIVE DigitsValue(_)
DigitsValue(s) ==
    IF Len(s) = 0 THEN 0
    ELSE 10 * DigitsValue(SubSeq(s, 1, Len(s) - 1))
            + (CHOOSE k \in 0..9 : DigitChar(k) = s[Len(s)])

\* `${Number(s)}` of a part of a date: a string of digits, an empty string or
\* a missing part
NumberString(s) ==
    IF s = Undefined THEN <<"N", "a", "N">>
    ELSE IF \A i \in 1..Len(s) : s[i] \in Digits THEN NatToString(DigitsValue(s))
    ELSE <<"N", "a", "N">>

\* formatDateSimple: month.day without the padding
formatDateSimple(dateStr) ==
    IF ~Truthy(dateStr) THEN <<>>
    ELSE LET parts == Split(dateStr, <<"-">>)
             m == IF Len(parts) >= 2 THEN parts[2] ELSE Undefined
             d == IF Len(parts) >= 3 THEN parts[3] ELSE Undefined
         IN  NumberString(m) \o <<".">> \o NumberString(d)

\* report.dates.map(d => formatDateSimple(d)).join(' | '), from date k on
RECURSIVE DateHeaders(_, _)
DateHeaders(dates, k) ==
    IF k > Len(dates) THEN <<>>
    ELSE (IF k > 1 THEN <<Text(" | ")>> ELSE <<>>)
            \o <<Str(formatDateSimple(dates[k]))>> \o DateHeaders(dates, k + 1)

\* report.dates.map(() => ':---').join(' | '), from date k on
RECURSIVE DateRules(_, _)
DateRules(dates, k) ==
    IF k > Len(dates) THEN <<>>
    ELSE (IF k > 1 THEN <<Text(" | ")>> ELSE <<>>)
            \o <<Text(":---")>> \o DateRules(dates, k + 1)

\* the cell renderRow writes for the stats s: a percentage when the row has
\* a denominator key, else the value
StatCell(s, key, denomKey) ==
    IF denomKey # ""
    THEN <<Text(" "), Ratio(formatPercent(s[key], s[denomKey], 2)), Text("% |")>>
    ELSE <<Text(" "), Num(s[key]), Text(" |")>>

\* report.dates.forEach of renderRow, from date k on
RECURSIVE DayCells(_, _, _, _)
DayCells(r, key, denomKey, k) ==
    IF k > Len(r.dates) THEN <<>>
    ELSE StatCell(r.dailyStatsMap[r.dates[k]], key, denomKey)
            \o DayCells(r, key, denomKey, k + 1)

\* renderRow(label, key, isPercent, denomKey); avg names the field of avgStats
\* the label selects
renderRow(r, label, key, denomKey, avg) ==
    <<Text("| **"), Text(label), Text("** |")>>
        \o DayCells(r, key, denomKey, 1)
        \o StatCell(r.totalStats, key, denomKey)
        \o <<Text(" "), Ratio(r.avgStats[avg]), Text(" |\n")>>

\* Section 1 of a weekly report: the matrix of days, total and daily average
WeeklyMatrix(r) ==
    <<Text("| metric | ")>> \o DateHeaders(r.dates, 1)
        \o <<Text(" | total | 7-day average |\n"), Text("| :--- | ")>>
        \o DateRules(r.dates, 1) \o <<Text(" | :--- | :--- |\n")>>
        \o renderRow(r, "review volume", "totalRows", "", "totalRows")
        \o renderRow(r, "machine rejects", "machineRejectCount", "", "machineRejectCount")
        \o renderRow(r, "recall volume", "recallCount", "", "recallCount")
        \o renderRow(r, "hit rate", "recallCount", "totalRows", "recallRate")
        \o renderRow(r, "human violations", "humanViolationCount", "", "humanViolationCount")
        \o renderRow(r, "precision", "humanViolationCount", "recallCount", "precision")
        \o renderRow(r, "black samples", "blackSampleTotal", "", "blackSampleTotal")
        \o renderRow(r, "risk level", "blackSampleTotal", "totalRows", "riskLevel")
        \o <<Text("\n")>>

\* Section 1 of a single-day report
SingleTable(s) ==
    <<Text("| metric | value | note |\n| :--- | :--- | :--- |\n"),
      Text("| **review volume** | "), Num(s.totalRows), Text(" | |\n"),
      Text("| **machine rejects** | "), Num(s.machineRejectCount), Text(" | |\n"),
      Text("| **recall volume** | "), Num(s.recallCount), Text(" | |\n"),
      Text("| **hit rate** | "),
      Ratio(formatPercent(s.recallCount, s.totalRows, 2)), Text("% | |\n"),
      Text("| **human violations** | "), Num(s.humanViolationCount), Text(" | |\n"),
      Text("| **precision** | "),
      Ratio(formatPercent(s.humanViolationCount, s.recallCount, 2)), Text("% | |\n"),
      Text("| **black samples** | "), Num(s.blackSampleTotal),
      Text(" | recall + human violations |\n"),
      Text("| **risk level** | "),
      Ratio(formatPercent(s.blackSampleTotal, s.totalRows, 2)), Text("% | |\n\n")>>

\* one line of Section 2
StrategyLine(r, s) ==
    <<Text("| "), Str(s.name), Text(" | "), Num(s.hitCount), Text(" | "),
      Ratio(formatPercent(s.hitCount, r.aggTotalRows, 4)), Text("% | "),
      Num(s.humanReviewCount), Text("<br>(pending: "), Num(s.pendingCount),
      Text(") | "), Num(s.violationCount), Text(" | "),
      Ratio(formatPercent(s.violationCount, s.humanReviewCount, 2)), Text("% |\n")>>

\* report.strategyList.forEach over the entries lo..hi
RECURSIVE StrategyLines(_, _, _)
StrategyLines(r, lo, hi) ==
    IF lo > hi THEN <<>>
    ELSE IF lo = hi THEN StrategyLine(r, r.strategyList[lo])
    ELSE StrategyLines(r, lo, (lo + hi) \div 2)
            \o StrategyLines(r, (lo + hi) \div 2 + 1, hi)

\* riskVal: (t.count / report.aggTotalRows) * 100, with nothing to guard it
TagRiskVal(r, t) == Frac(t.count * 100, r.aggTotalRows)

\* one line of Section 3
TagLine(r, t) ==
    <<Text("| "), Str(t.name), Text(" | "), Num(t.count), Text(" | "),
      Ratio(formatPercent(t.count, r.aggHumanViolationCount, 4)), Text("% | "),
      Ratio(formatDecimal(TagRiskVal(r, t), 4)), Text("% |\n")>>

\* report.tagList.forEach over the entries lo..hi
RECURSIVE TagLines(_, _, _)
TagLines(r, lo, hi) ==
    IF lo > hi THEN <<>>
    ELSE IF lo = hi THEN TagLine(r, r.tagList[lo])
    ELSE TagLines(r, lo, (lo + hi) \div 2) \o TagLines(r, (lo + hi) \div 2 + 1, hi)

\* totalRiskSum after the entries lo..hi are added to sum
RECURSIVE TotalRiskSum(_, _, _, _)
TotalRiskSum(sum, r, lo, hi) ==
    IF lo > hi THEN sum
    ELSE IF lo = hi THEN FracAdd(sum, TagRiskVal(r, r.tagList[lo]))
    ELSE LET mid == (lo + hi) \div 2
             first == TotalRiskSum(sum, r, lo, mid)
         IN  IF first[2] >= 0 THEN TotalRiskSum(first, r, mid + 1, hi) ELSE first

\* (stats?.machineRejectCount || 0) + (stats?.humanViolationCount || 0)
realBlackSample(r) ==
    LET s == IF r.mode = "WEEKLY" THEN r.totalStats ELSE r.singleStats
    IN  s.machineRejectCount + s.humanViolationCount

generateMarkdown(r) ==
    IF r = NullReport THEN <<>>
    ELSE <<Text("### 1. basic statistics\n"), Text("**["), Str(r.dateLabel),
           Text("] overview**\n"), Text("*volumes and risk level*\n\n")>>
        \o (IF r.mode = "WEEKLY" THEN WeeklyMatrix(r) ELSE SingleTable(r.singleStats))
        \o <<Text("### 2. strategies\n"), Text("*hit rate, precision*\n\n"),
             Text("| strategy | hits | hit rate | sent to review | violations | precision |\n"),
             Text("| :--- | :--- | :--- | :--- | :--- | :--- |\n")>>
        \o StrategyLines(r, 1, Len(r.strategyList))
        \o <<Text("\n"), Text("### 3. risk distribution\n"),
             Text("*share and risk level by tag*\n"),
             Text("*   human violations: "), Num(r.aggHumanViolationCount), Text("\n"),
             Text("*   machine rejects + human violations: "), Num(realBlackSample(r)),
             Text("\n\n"),
             Text("| tag | count | share | risk level |\n"),
             Text("| :--- | :--- | :--- | :--- |\n")>>
        \o TagLines(r, 1, Len(r.tagList))
        \o <<Text("| **total** | **"), Num(r.totalTagCount),
             Text("** | **100.00%** | **"),
             Ratio(formatDecimal(TotalRiskSum(<<0, 1>>, r, 1, Len(r.tagList)), 4)),
             Text("%** |")>>

\* the text of the pieces lo..hi
RECURSIVE MarkdownText(_, _, _)
MarkdownText(pieces, lo, hi) ==
    IF lo > hi THEN <<>>
    ELSE IF lo = hi THEN pieces[lo].s
    ELSE MarkdownText(pieces, lo, (lo + hi) \div 2)
            \o MarkdownText(pieces, (lo + hi) \div 2 + 1, hi)

\* markdownOutput: generateMarkdown() of the report on every render
markdownOutput(r) == MarkdownText(generateMarkdown(r), 1, Len(generateMarkdown(r)))

\* the sum of the summary row of the report view's tag table:
\* report.tagList.reduce((acc, t) => acc + (t.count / report.aggTotalRows) * 100, 0).toFixed(4)
ViewTagSummary(r) ==
    IF r = NullReport THEN <<>>
    ELSE formatDecimal(TotalRiskSum(<<0, 1>>, r, 1, Len(r.tagList)), 4)

-----------------------------------------------------------------------------
(* Rows *)

\* the end-to-end scenario of the specification, section 8
ScenarioRow1 ==
    (COL_TIME :> <<"2", "0", "2", "4", "-", "0", "3", "-", "0", "1", " ", "1", "0", ":", "0", "0", ":", "0", "0">>)
        @@ (COL_SYNC_STATUS :> <<"u62D2", "u7EDD">>)
        @@ (COL_HUMAN_STATUS :> <<"u62D2", "u7EDD">>)
        @@ (COL_SYNC_STRATEGY :> <<"s", "1">>)
        @@ (COL_TAGS :> <<"t", "1">>)
ScenarioRow2 ==
    (COL_TIME :> <<"2", "0", "2", "4", "/", "3", "/", "1">>)
        @@ (COL_SYNC_STATUS :> <<"u901A", "u8FC7">>)
        @@ (COL_HUMAN_STATUS :> <<"u5F85", "u5BA1">>)
        @@ (COL_SYNC_STRATEGY :> <<"s", "1", "&", "&", "s", "2">>)
ScenarioRow3 ==
    (COL_TIME :> <<"2", "0", "2", "4", "-", "0", "3", "-", "0", "1">>)
        @@ (COL_SYNC_STATUS :> <<"u901A", "u8FC7">>)
        @@ (COL_HUMAN_STATUS :> <<>>)
BothRejectRow ==
    (COL_TIME :> <<"2", "0", "2", "4", "u5E74", "3", "u6708", "2", "u65E5">>)
        @@ (COL_SYNC_STATUS :> <<" ", "u62D2", "u7EDD", " ">>)
        @@ (COL_ASYNC_STATUS :> <<"u62D2", "u7EDD">>)
        @@ (COL_HUMAN_STATUS :> <<" ", "u62D2", "u7EDD">>)
        @@ (COL_SYNC_STRATEGY :> <<" ">>)
        @@ (COL_ASYNC_STRATEGY :> <<"s", "2", "&", "&", " ", "s", "2", " ", "&", "&">>)
        @@ (COL_TAGS :> <<"A", "&", "&", "A", "&", "&", "B">>)
MappedRow ==
    (COL_TIME :> <<"2", "0", "2", "4", ".", "0", "3", ".", "0", "2">>)
        @@ (COL_ASYNC_STATUS :> <<"u62D2", "u7EDD">>)
        @@ (COL_HUMAN_STATUS :> <<"u901A", "u8FC7">>)
        @@ (COL_SYNC_STRATEGY :> <<"q", "r", "_", "c", "o", "d", "e", "_", "d", "e", "t", "e", "c", "t", "&", "&", "u4E8C", "u7EF4", "u7801", "u56FE", "u7247", "u8BC6", "u522B", "u6A21", "u578B">>)
        @@ (COL_ASYNC_STRATEGY :> <<"s", "1">>)
        @@ (COL_TAGS :> <<"A">>)
TagDelimiterRow ==
    (COL_TIME :> <<"a", "t", " ", "2", "0", "2", "4", "-", "3", "-", "0", "2", "T", "0", "8">>)
        @@ (COL_HUMAN_STATUS :> <<"u62D2", "u7EDD">>)
        @@ (COL_ASYNC_STRATEGY :> <<"s", "1">>)
        @@ (COL_TAGS :> <<"A", "$", "$", "B", "+", "u62D2", "u7EDD", ",", " ", "A", "uFF0C", "n", "u", "l", "l">>)
SingleDelimiterRow ==
    (COL_TIME :> <<"2", "4", "-", "0", "3", "-", "0", "2">>)
        @@ (COL_HUMAN_STATUS :> <<"u62D2", "u7EDD">>)
        @@ (COL_SYNC_STRATEGY :> <<"s", "1", "&", "&", "&", "s", "2">>)
        @@ (COL_TAGS :> <<"A", "&", "B", " ", "$", "C">>)
BlankRow ==
    (COL_TIME :> <<"N", "/", "A">>)
        @@ (COL_SYNC_STATUS :> <<"u62D2", "u7EDD", "u901A", "u8FC7">>)
        @@ (COL_HUMAN_STATUS :> <<" ">>)
        @@ (COL_TAGS :> <<"B">>)
PendingRow ==
    (COL_TIME :> <<"2", "0", "2", "4", "-", "0", "3", "-", "0", "2">>)
        @@ (COL_SYNC_STATUS :> <<"u62D2", "u7EDD">>)
        @@ (COL_HUMAN_STATUS :> <<"u5F85", "u5BA1">>)
        @@ (COL_SYNC_STRATEGY :> <<"s", "2">>)
        @@ (COL_TAGS :> <<"A">>)

\* a row of a file decoded with the wrong encoding: no column name survives
GarbledRow == (<<"uFFFD">> :> <<"x">>)

RowChoices ==
    {ScenarioRow1, ScenarioRow2, ScenarioRow3, BothRejectRow, MappedRow,
     TagDelimiterRow, SingleDelimiterRow, BlankRow, PendingRow, GarbledRow}

\* the sequences of at most n elements of S
RECURSIVE SeqsUpTo(_, _)
SeqsUpTo(S, n) ==
    IF n = 0 THEN {<<>>}
    ELSE LET shorter == SeqsUpTo(S, n - 1)
         IN  shorter \cup {Append(s, x) : s \in {q \in shorter : Len(q) = n - 1}, x \in S}

\* at most this many rows in an enumerated file
MaxRows == 3

DAY1 == <<"2", "0", "2", "4", "-", "0", "3", "-", "0", "1">>
DAY2 == <<"2", "0", "2", "4", "/", "3", "/", "2">>
DAY3 == <<"2", "0", "2", "4", "u5E74", "3", "u6708", "1", "0", "u65E5">>

\* the k-th row of a day of a large file
VolumeRow(day, k) ==
    (COL_TIME :> day)
        @@ (COL_SYNC_STATUS :> IF k % 5 = 0 THEN REJECT ELSE <<"u901A", "u8FC7">>)
        @@ (COL_HUMAN_STATUS :>
                IF k % 4 = 0 THEN REJECT ELSE IF k % 4 = 1 THEN PENDING ELSE <<>>)
        @@ (COL_SYNC_STRATEGY :> IF k % 2 = 0 THEN <<"s", "1">> ELSE <<"s", "2">>)

\* a file with v[1], v[2] and v[3] rows on three days
VolumeData(v) ==
    [k \in 1..v[1] |-> VolumeRow(DAY1, k)]
        \o [k \in 1..v[2] |-> VolumeRow(DAY2, k)]
        \o [k \in 1..v[3] |-> VolumeRow(DAY3, k)]

\* the daily volumes of the large files
VolumeChoices ==
    {<<1, 1, 150>>, <<5, 6, 101>>, <<5, 6, 100>>, <<6, 7, 1200>>,
     <<5, 6, 1100>>, <<0, 0, 150>>}

\* the name of tag j
TagName(j) == <<"t", DigitChar(j \div 10), DigitChar(j % 10)>>

\* a violation row that carries tag j
TagRow(day, j) ==
    (COL_TIME :> day) @@ (COL_HUMAN_STATUS :> REJECT) @@ (COL_TAGS :> TagName(j))

\* the rows ahead of the first row of tag j when tag i has n + 1 - i rows
TagOffset(n, j) == (j - 1) * (n + 1) - ((j - 1) * j) \div 2

\* n tags over two days, tag j on n + 1 - j rows
TagData(n) ==
    [r \in 1..((n * (n + 1)) \div 2) |->
        TagRow(IF r % 2 = 0 THEN DAY1 ELSE DAY2,
               CHOOSE j \in 1..n : TagOffset(n, j) < r /\ r <= TagOffset(n, j + 1))]

\* n tags over two days, each on one row
TagsOnce(n) == [r \in 1..n |-> TagRow(IF r % 2 = 0 THEN DAY1 ELSE DAY2, r)]

\* the files with many tags: counts 40..1, counts 36..1, and 37 tags counted once
TagFiles == {TagData(40), TagData(36), TagsOnce(37)}

\* a violation row of the first day with a strategy and a tag that rows of
\* the second day carry too
FirstDayRow ==
    (COL_TIME :> DAY1)
        @@ (COL_HUMAN_STATUS :> REJECT)
        @@ (COL_ASYNC_STRATEGY :> <<"s", "1">>)
        @@ (COL_TAGS :> <<"A">>)

\* a file whose two days share a strategy and a tag
MergeData == <<FirstDayRow, BothRejectRow, TagDelimiterRow>>

\* a row with nothing but its time
DateRow(time) == (COL_TIME :> time)

\* times built from a year, a month and a day with their separators, alone
\* or inside other text or other digits; some of them hold no date
DateStrings ==
    {pre \o y \o s1 \o m \o s2 \o d \o post :
        pre \in {<<>>, <<"a", "t", " ">>, <<"1">>},
        y \in {<<"2", "0", "2", "4">>, <<"0", "2", "4">>},
        s1 \in {<<"-">>, <<"u5E74">>, <<":">>},
        m \in {<<"3">>, <<"0", "3">>, <<"1", "1">>},
        s2 \in {<<"/">>, <<"u6708">>, <<" ">>},
        d \in {<<"2">>, <<"0", "2">>, <<"1", "0">>},
        post \in {<<>>, <<"5">>, <<"u65E5", " ", "0", "8", ":", "0", "0">>}}

\* files of three rows whose days need their padding to sort
DateOrderStrings ==
    {DAY2, DAY3, <<"2", "0", "2", "3", ".", "1", "1", ".", "0", "2">>,
     <<"2", "4", "-", "0", "3", "-", "0", "2">>}

DateFiles ==
    {<<DateRow(s)>> : s \in DateStrings}
        \cup {<<DateRow(a), DateRow(b), DateRow(c)>> : a, b, c \in DateOrderStrings}

\* a large day, two days the noise filter drops and a row without a date
NoisyData == Append(VolumeData(<<1, 1, 150>>), BlankRow)

\* what a parse may deliver
LoadedData ==
    SeqsUpTo(RowChoices, MaxRows)
        \cup {VolumeData(v) : v \in VolumeChoices}
        \cup TagFiles
        \cup {MergeData, NoisyData}
        \cup DateFiles

-----------------------------------------------------------------------------
(* The application *)

NoParse == [file |-> 0, encoding |-> "none"]
NoResult == <<"no result">>
NoStats == [totalRows |-> -1]

Encodings == {"UTF-8", "GBK"}

\* the files the user can pick, each with the encoding it was written in
FILES ==
    << [native |-> "UTF-8",
        rows |-> <<ScenarioRow1, ScenarioRow2, ScenarioRow3, BothRejectRow, PendingRow>>],
       [native |-> "GBK", rows |-> <<TagDelimiterRow, BlankRow>>],
       [native |-> "UTF-8", rows |-> <<>>] >>

\* results.data of Papa.parse(file, {header: true, encoding})
ParseResult(f, enc) ==
    IF enc = FILES[f].native THEN FILES[f].rows
    ELSE [i \in 1..Len(FILES[f].rows) |-> GarbledRow]

Init ==
    /\ file = 0
    /\ encoding = "UTF-8"
    /\ rawData = <<>>
    /\ availableDates = <<>>
    /\ selectedDate = WEEKLY_KEY
    /\ loading = FALSE
    /\ error = Null
    /\ parsing = NoParse
    /\ report = NullReport
    /\ rows = <<>>
    /\ stats = NoStats
    /\ args = <<>>
    /\ result = NoResult

\* the dependency array without the selection
ReportDepsWithoutSelection(data, date, dates) == <<data, dates>>

\* the dependency array of the useMemo: [rawData, selectedDate, availableDates]
ReportDeps(data, date, dates) == <<data, date, dates>>

\* the useMemo value on the render after the state became data, date, dates:
\* the factory runs again when a dependency has changed
MemoReport(data, date, dates) ==
    IF ReportDeps(data, date, dates) = ReportDeps(rawData, selectedDate, availableDates)
    THEN report
    ELSE Report(data, date, dates)

handleFileChange(f) ==
    /\ file' = f
    /\ error' = Null
    /\ rawData' = <<>>
    /\ availableDates' = <<>>
    /\ selectedDate' = WEEKLY_KEY
    /\ report' = MemoReport(<<>>, WEEKLY_KEY, <<>>)
    /\ UNCHANGED <<encoding, loading, parsing, callVars>>

setEncoding(e) ==
    /\ encoding' = e
    /\ UNCHANGED <<file, rawData, availableDates, selectedDate, loading, error,
                   parsing, report, callVars>>

\* the button is disabled while !file || loading
processFile ==
    /\ file # 0
    /\ ~loading
    /\ loading' = TRUE
    /\ error' = Null
    /\ parsing' = [file |-> file, encoding |-> encoding]
    /\ UNCHANGED <<file, encoding, rawData, availableDates, selectedDate, report,
                   callVars>>

\* the complete callback with results.data = data
Complete(data) ==
    IF Len(data) = 0
    THEN /\ error' = "empty"
         /\ loading' = FALSE
         /\ UNCHANGED <<rawData, availableDates, report>>
    ELSE /\ error' = IF KeyColumnsMissing(data[1]) THEN "warning" ELSE error
         /\ rawData' = data
         /\ availableDates' = SortedDates(data)
         /\ loading' = FALSE
         /\ report' = MemoReport(data, selectedDate, SortedDates(data))

parseComplete ==
    /\ parsing # NoParse
    /\ Complete(ParseResult(parsing.file, parsing.encoding))
    /\ parsing' = NoParse
    /\ UNCHANGED <<file, encoding, selectedDate, callVars>>

parseError ==
    /\ parsing # NoParse
    /\ error' = "parse error"
    /\ loading' = FALSE
    /\ parsing' = NoParse
    /\ UNCHANGED <<file, encoding, rawData, availableDates, selectedDate, report,
                   callVars>>

\* the select is rendered when availableDates.length > 0
setSelectedDate(d) ==
    /\ Len(availableDates) > 0
    /\ selectedDate' = d
    /\ report' = MemoReport(rawData, d, availableDates)
    /\ UNCHANGED <<file, encoding, rawData, availableDates, loading, error,
                   parsing, callVars>>

DateOptions == {WEEKLY_KEY} \cup {availableDates[i] : i \in 1..Len(availableDates)}

Next ==
    \/ \E f \in 1..Len(FILES) : handleFileChange(f)
    \/ \E e \in Encodings : setEncoding(e)
    \/ processFile
    \/ parseComplete
    \/ parseError
    \/ \E d \in DateOptions : setSelectedDate(d)

Spec == Init /\ [][Next]_vars

-----------------------------------------------------------------------------
(* The application once a parse has delivered its rows *)

InitLoaded ==
    /\ file = 1
    /\ encoding = "UTF-8"
    /\ loading = FALSE
    /\ parsing = NoParse
    /\ selectedDate = WEEKLY_KEY
    /\ rows = <<>>
    /\ stats = NoStats
    /\ args = <<>>
    /\ result = NoResult
    /\ \E data \in LoadedData :
        /\ rawData = data
        /\ availableDates = SortedDates(data)
        /\ error = IF Len(data) = 0 THEN "empty"
                   ELSE IF KeyColumnsMissing(data[1]) THEN "warning" ELSE Null
        /\ report = Report(data, WEEKLY_KEY, SortedDates(data))

NextLoaded == \E d \in DateOptions : setSelectedDate(d)

SpecLoaded == InitLoaded /\ [][NextLoaded]_vars

-----------------------------------------------------------------------------
(* analyzeRows called on its own *)

InitAnalyze ==
    /\ file = 0
    /\ encoding = "UTF-8"
    /\ rawData = <<>>
    /\ availableDates = <<>>
    /\ selectedDate = WEEKLY_KEY
    /\ loading = FALSE
    /\ error = Null
    /\ parsing = NoParse
    /\ report = NullReport
    /\ rows \in SeqsUpTo(RowChoices, MaxRows)
    /\ stats = NoStats
    /\ args = <<>>
    /\ result = NoResult

Analyze ==
    /\ stats = NoStats
    /\ stats' = analyzeRows(rows)
    /\ UNCHANGED <<rows, args, result, appVars>>

NextAnalyze == Analyze

SpecAnalyze == InitAnalyze /\ [][NextAnalyze]_vars

-----------------------------------------------------------------------------
(* formatPercent called on its own *)

\* the largest numerator and denominator of a direct call
MaxNumerator == 5
MaxDenominator == 3

\* the decimals of a direct call: those of the call sites, the ends of the
\* range toFixed accepts and their neighbours
DecimalsChoices == {-1, 0, 1, 2, 3, 4, 20, 21, 100, 101}

\* a zero denominator with every decimals, any other with those of the call sites
FormatArgs ==
    [numerator : 0..MaxNumerator, denominator : {0}, decimals : DecimalsChoices]
        \cup [numerator : 0..MaxNumerator, denominator : 1..MaxDenominator,
              decimals : {0, 2, 3, 4}]

InitFormat ==
    /\ file = 0
    /\ encoding = "UTF-8"
    /\ rawData = <<>>
    /\ availableDates = <<>>
    /\ selectedDate = WEEKLY_KEY
    /\ loading = FALSE
    /\ error = Null
    /\ parsing = NoParse
    /\ report = NullReport
    /\ rows = <<>>
    /\ stats = NoStats
    /\ args \in FormatArgs
    /\ result = NoResult

Format ==
    /\ result = NoResult
    /\ result' = formatPercent(args.numerator, args.denominator, args.decimals)
    /\ UNCHANGED <<rows, stats, args, appVars>>

NextFormat == Format

SpecFormat == InitFormat /\ [][NextFormat]_vars

-----------------------------------------------------------------------------
(* What the claims read: the rows as the specification describes them *)

\* the trimmed value of a column, empty when the row lacks it
TrimmedCell(row, col) == IF col \in DOMAIN row THEN Trim(row[col]) ELSE <<>>

RowMachineRejected(row) ==
    TrimmedCell(row, COL_SYNC_STATUS) = REJECT
        \/ TrimmedCell(row, COL_ASYNC_STATUS) = REJECT
RowHumanSent(row) == TrimmedCell(row, COL_HUMAN_STATUS) # <<>>
RowHumanPending(row) == TrimmedCell(row, COL_HUMAN_STATUS) = PENDING
RowHumanViolation(row) == TrimmedCell(row, COL_HUMAN_STATUS) = REJECT

\* the '&&'-separated tokens of the strategy column the row is read from
RowStrategyTokens(row) ==
    LET sync == TrimmedCell(row, COL_SYNC_STRATEGY)
    IN  Split(IF sync # <<>> THEN sync ELSE TrimmedCell(row, COL_ASYNC_STRATEGY),
              <<"&", "&">>)

\* the occurrences <<row, token>> of strategy S in the rows of rs numbered in among
StrategyOccurrences(rs, S, among) ==
    UNION {{<<i, k>> : k \in {k \in 1..Len(RowStrategyTokens(rs[i])) :
                                /\ Trim(RowStrategyTokens(rs[i])[k]) # <<>>
                                /\ MapStrategyName(Trim(RowStrategyTokens(rs[i])[k])) = S}}
            : i \in among}

\* the tags a row names: its trimmed tokens
RowTagTokens(row) ==
    LET tokens == TagSplit(IF COL_TAGS \in DOMAIN row THEN row[COL_TAGS] ELSE <<>>)
    IN  {Trim(tokens[k]) : k \in 1..Len(tokens)}

\* the violation rows that name the tag
ViolationRowsWithTag(rs, tag) ==
    {i \in 1..Len(rs) : RowHumanViolation(rs[i]) /\ tag \in RowTagTokens(rs[i])}

Analyzed == stats # NoStats

C3_TagCountedOncePerRow ==
    Analyzed =>
        /\ \A e \in 1..Len(stats.tagMap) :
              stats.tagMap[e][2]
                  = Cardinality(ViolationRowsWithTag(rows, stats.tagMap[e][1]))
        /\ \A e, f \in 1..Len(stats.tagMap) :
              stats.tagMap[e][1] = stats.tagMap[f][1] => e = f
        /\ \A i \in 1..Len(rows) :
              RowHumanViolation(rows[i]) =>
                  RowTagTokens(rows[i]) \ (STOP_WORDS \cup {<<>>})
                      \subseteq {stats.tagMap[e][1] : e \in 1..Len(stats.tagMap)}
        /\ rows = <<BothRejectRow>> =>
              stats.tagMap = << <<<<"A">>, 1>>, <<<<"B">>, 1>> >>

\* analyzeRows has run on the row "A&&A&&B" and on another violation row with A
C3_Witness ==
    /\ Analyzed
    /\ \E i \in 1..Len(rows) : rows[i] = BothRejectRow
    /\ \E e \in 1..Len(stats.tagMap) :
          stats.tagMap[e][1] = <<"A">> /\ stats.tagMap[e][2] = 2

\* C9: totalRows is the number of rows, machineRejectCount the number of rows
\* whose trimmed synchronous or asynchronous status is the rejection literal,
\* recallCount the number of rows with a non-empty trimmed human status, and
\* humanViolationCount the number of rows whose trimmed human status is the
\* rejection literal.
C9_BasicCounts ==
    Analyzed =>
        /\ stats.totalRows = Len(rows)
        /\ stats.machineRejectCount
              = Cardinality({i \in 1..Len(rows) : RowMachineRejected(rows[i])})
        /\ stats.recallCount
              = Cardinality({i \in 1..Len(rows) : RowHumanSent(rows[i])})
        /\ stats.humanViolationCount
              = Cardinality({i \in 1..Len(rows) : RowHumanViolation(rows[i])})

\* analyzeRows has run on a row rejected by both machine reviews, a row
\* rejected by the asynchronous review alone and a row reviewed but neither
\* pending nor a violation
C9_Witness ==
    /\ Analyzed
    /\ \E i \in 1..Len(rows) : rows[i] = BothRejectRow
    /\ \E i \in 1..Len(rows) : rows[i] = MappedRow
    /\ stats.machineRejectCount = 2
    /\ stats.recallCount > stats.humanViolationCount

\* the strategy names the rows hit
HitStrategies(rs) ==
    UNION {{MapStrategyName(Trim(RowStrategyTokens(rs[i])[k])) :
                k \in {k \in 1..Len(RowStrategyTokens(rs[i])) :
                          Trim(RowStrategyTokens(rs[i])[k]) # <<>>}}
            : i \in 1..Len(rs)}

\* C10: for every strategy name S, hitCount is the number of non-empty trimmed
\* tokens that map to S over all rows (a name twice in a row counts twice), and
\* humanReviewCount, pendingCount and violationCount are the numbers of those
\* occurrences in rows that are sent, pending and violations.
C10_StrategyCounts ==
    Analyzed =>
        /\ {stats.strategyMap[e].name : e \in 1..Len(stats.strategyMap)}
              = HitStrategies(rows)
        /\ \A e \in 1..Len(stats.strategyMap) :
              LET s == stats.strategyMap[e]
              IN  /\ s.hitCount
                        = Cardinality(StrategyOccurrences(rows, s.name, 1..Len(rows)))
                  /\ s.humanReviewCount
                        = Cardinality(StrategyOccurrences(rows, s.name,
                                            {i \in 1..Len(rows) : RowHumanSent(rows[i])}))
                  /\ s.pendingCount
                        = Cardinality(StrategyOccurrences(rows, s.name,
                                            {i \in 1..Len(rows) : RowHumanPending(rows[i])}))
                  /\ s.violationCount
                        = Cardinality(StrategyOccurrences(rows, s.name,
                                            {i \in 1..Len(rows) : RowHumanViolation(rows[i])}))

\* analyzeRows has run on a row that names one strategy twice and on a row
\* that names two strategies, one of them pending
C10_Witness ==
    /\ Analyzed
    /\ \E i \in 1..Len(rows) : rows[i] = BothRejectRow
    /\ \E i \in 1..Len(rows) : rows[i] = ScenarioRow2
    /\ \E e \in 1..Len(stats.strategyMap) :
          /\ stats.strategyMap[e].name = <<"s", "2">>
          /\ stats.strategyMap[e].hitCount = 3
          /\ stats.strategyMap[e].pendingCount = 1
          /\ stats.strategyMap[e].violationCount = 2

-----------------------------------------------------------------------------
(* What the claims read of a report *)

Weekly == report.mode = "WEEKLY"
Single == report.mode = "SINGLE"

SeqSet(seq) == {seq[i] : i \in 1..Len(seq)}

RECURSIVE SumOver(_, _)
SumOver(S, f) ==
    IF S = {} THEN 0
    ELSE LET x == CHOOSE y \in S : TRUE IN f[x] + SumOver(S \ {x}, f)

\* the per-partition results a report holds: one in single mode, one per
\* retained date in weekly mode
Partitions ==
    IF Single THEN {report.singleStats}
    ELSE IF Weekly THEN {report.dailyStatsMap[d] : d \in DOMAIN report.dailyStatsMap}
    ELSE {}

\* the count of a tag in a tag map, 0 when the map lacks it
CountIn(tagMap, tag) ==
    IF \E e \in 1..Len(tagMap) : tagMap[e][1] = tag
    THEN tagMap[CHOOSE e \in 1..Len(tagMap) : tagMap[e][1] = tag][2]
    ELSE 0

\* the tags of the scope of the report, and the full count of each
TagUniverse == UNION {{p.tagMap[e][1] : e \in 1..Len(p.tagMap)} : p \in Partitions}
FullTagCount(tag) ==
    SumOver(Partitions, [p \in Partitions |-> CountIn(p.tagMap, tag)])

\* the number of rows of the loaded file whose date is d
RowCountOfDate(d) ==
    Cardinality({i \in 1..Len(rawData) : extractDate(RowGet(rawData[i], COL_TIME)) = d})

MaxVolume == SetMax({RowCountOfDate(d) : d \in SeqSet(availableDates)})

\* the sum of the counts of the entries lo..hi of the tag list of the report
RECURSIVE ListedTagTotal(_, _)
ListedTagTotal(lo, hi) ==
    IF lo > hi THEN 0
    ELSE IF lo = hi THEN report.tagList[lo].count
    ELSE ListedTagTotal(lo, (lo + hi) \div 2)
            + ListedTagTotal((lo + hi) \div 2 + 1, hi)

RowStrategyBounded(s) ==
    s.pendingCount <= s.humanReviewCount /\ s.violationCount <= s.humanReviewCount

\* C2: in every strategy entry analyzeRows produces and in every entry of the
\* weekly merged list, pendingCount <= humanReviewCount and
\* violationCount <= humanReviewCount.
C2_PendingAndViolationWithinReview ==
    /\ \A p \in Partitions :
          \A e \in 1..Len(p.strategyMap) : RowStrategyBounded(p.strategyMap[e])
    /\ (Weekly \/ Single) =>
          \A e \in 1..Len(report.strategyList) :
              RowStrategyBounded(report.strategyList[e])

\* a weekly report merges a strategy hit on two days, with pending rows,
\* violations and a review count above both
C2_Witness ==
    /\ Weekly
    /\ \E e \in 1..Len(report.strategyList) :
          LET s == report.strategyList[e]
          IN  /\ s.pendingCount > 0
              /\ s.violationCount > 0
              /\ s.humanReviewCount > s.pendingCount
              /\ Cardinality({p \in Partitions :
                    \E f \in 1..Len(p.strategyMap) : p.strategyMap[f].name = s.name}) = 2

\* C4: in weekly mode, with more than one date and a largest daily volume
\* above 100, the retained dates are exactly the dates whose row count is
\* strictly above max(5, maxVolume * 0.005); otherwise every date is retained.
C4_NoiseFilter ==
    Weekly =>
        /\ SeqSet(report.dates)
              = IF Len(availableDates) > 1 /\ MaxVolume > 100
                THEN {d \in SeqSet(availableDates) :
                        /\ RowCountOfDate(d) > 5
                        /\ RowCountOfDate(d) * 200 > MaxVolume}
                ELSE SeqSet(availableDates)
        /\ \A i, j \in 1..Len(report.dates) :
              i < j => StringLess(report.dates[i], report.dates[j])

\* a weekly report of a file whose largest day holds 1200 rows: the day with
\* exactly 6 rows, the threshold, is dropped and the day with 7 rows is kept
C4_Witness ==
    /\ Weekly
    /\ Len(availableDates) = 3
    /\ MaxVolume = 1200
    /\ \E d \in SeqSet(availableDates) :
          RowCountOfDate(d) = 6 /\ d \notin SeqSet(report.dates)
    /\ \E d \in SeqSet(availableDates) :
          RowCountOfDate(d) = 7 /\ d \in SeqSet(report.dates)

\* C5: in both modes the tag list holds at most 35 entries, they are the
\* entries with the highest counts of the full tag map, and totalTagCount is
\* the sum of the counts of the listed entries only.
C5_TopTagsAndTheirTotal ==
    (Weekly \/ Single) =>
        LET names == {report.tagList[e].name : e \in 1..Len(report.tagList)}
        IN  /\ Len(report.tagList) <= 35
            /\ Len(report.tagList)
                  = IF Cardinality(TagUniverse) < 35 THEN Cardinality(TagUniverse) ELSE 35
            /\ Cardinality(names) = Len(report.tagList)
            /\ names \subseteq TagUniverse
            /\ \A e \in 1..Len(report.tagList) :
                  /\ report.tagList[e].count = FullTagCount(report.tagList[e].name)
                  /\ \A tag \in TagUniverse \ names :
                        FullTagCount(tag) <= report.tagList[e].count
            /\ report.totalTagCount = ListedTagTotal(1, Len(report.tagList))

\* a weekly report over two days whose tag map holds more than 35 tags: the
\* list is cut and the total leaves the cut tags out
C5_Witness ==
    /\ Weekly
    /\ Len(report.dates) = 2
    /\ Cardinality(TagUniverse) > 35
    /\ Len(report.tagList) = 35
    /\ \E tag \in TagUniverse :
          /\ \A e \in 1..Len(report.tagList) : report.tagList[e].name # tag
          /\ FullTagCount(tag) > 0

\* the scope of the report holds 40 tags whose counts are 40, 39, ..., 1
FortyTagsCounted40To1 ==
    /\ Weekly \/ Single
    /\ Cardinality(TagUniverse) = 40
    /\ {FullTagCount(tag) : tag \in TagUniverse} = 1..40

\* C6 as stated: with 40 tags counted 40, 39, ..., 1 the tag list holds the
\* counts 40 down to 6 and totalTagCount is 943.
C6_AsStated ==
    FortyTagsCounted40To1 =>
        /\ [e \in 1..Len(report.tagList) |-> report.tagList[e].count]
              = [e \in 1..35 |-> 41 - e]
        /\ report.totalTagCount = 943

\* C6 amended: with 40 tags counted 40, 39, ..., 1 the tag list holds the
\* counts 40 down to 6 and totalTagCount is their sum, 805.
C6_TopThirtyFiveOfForty ==
    FortyTagsCounted40To1 =>
        /\ [e \in 1..Len(report.tagList) |-> report.tagList[e].count]
              = [e \in 1..35 |-> 41 - e]
        /\ report.totalTagCount = 805

\* a report over 40 tags counted 40, 39, ..., 1
C6_Witness == FortyTagsCounted40To1 /\ Len(report.tagList) = 35

\* no retained data: no rows, a selected day without rows, or a weekly
\* selection with no date
NoRetainedData ==
    \/ Len(rawData) = 0
    \/ selectedDate # WEEKLY_KEY /\ RowCountOfDate(selectedDate) = 0
    \/ selectedDate = WEEKLY_KEY /\ Len(availableDates) = 0

\* C7: the report is the null report whenever no data is retained: no input
\* rows, a selected day that matches no row, or weekly mode with no date.
C7_NoReportWithoutData == NoRetainedData => report = NullReport

\* C8: in weekly mode each of the five fields of totalStats is the sum of that
\* field over the BasicStats of the retained dates, and of those dates only.
C8_TotalsAreSumsOverRetainedDates ==
    Weekly =>
        LET days == SeqSet(report.dates)
            m == report.dailyStatsMap
        IN  /\ DOMAIN m = days
            /\ Cardinality(days) = Len(report.dates)
            /\ report.totalStats.totalRows
                  = SumOver(days, [d \in days |-> m[d].totalRows])
            /\ report.totalStats.machineRejectCount
                  = SumOver(days, [d \in days |-> m[d].machineRejectCount])
            /\ report.totalStats.recallCount
                  = SumOver(days, [d \in days |-> m[d].recallCount])
            /\ report.totalStats.humanViolationCount
                  = SumOver(days, [d \in days |-> m[d].humanViolationCount])
            /\ report.totalStats.blackSampleTotal
                  = SumOver(days, [d \in days |-> m[d].blackSampleTotal])
            /\ \A d \in days : m[d].totalRows = RowCountOfDate(d)

\* a weekly report that keeps two days and drops a third: the totals leave
\* the rows of the dropped day out
C8_Witness ==
    /\ Weekly
    /\ Len(availableDates) = 3
    /\ Len(report.dates) = 2
    /\ report.totalStats.totalRows < Len(rawData)
    /\ report.totalStats.blackSampleTotal > report.totalStats.humanViolationCount
    /\ \A d \in SeqSet(report.dates) : report.dailyStatsMap[d].blackSampleTotal > 0

-----------------------------------------------------------------------------
(* formatPercent *)

Formatted == result # NoResult

\* "0", and for d > 0 a point and d zeros
ZeroString(d) ==
    IF d = 0 THEN <<"0">> ELSE <<"0", ".">> \o [i \in 1..d |-> "0"]

\* C12 as stated: formatPercent(n, 0, d) is the zero string with d decimal
\* digits, and never an error, for every n and every d.
C12_AsStated ==
    (Formatted /\ args.denominator = 0) => result = ZeroString(args.decimals)

\* C12 amended: formatPercent(n, 0, d) is the zero string with exactly d
\* decimal digits, and never an error, NaN or Infinity, for every n and every
\* d from 0 to 100.
C12_ZeroDenominatorGivesZeros ==
    (Formatted /\ args.denominator = 0 /\ args.decimals \in 0..100) =>
        /\ result = ZeroString(args.decimals)
        /\ Len(result) = IF args.decimals = 0 THEN 1 ELSE args.decimals + 2

\* formatPercent has returned "0.0000" for a numerator above 0, a zero
\* denominator and 4 decimals
C12_Witness ==
    /\ Formatted
    /\ args.numerator > 0
    /\ args.denominator = 0
    /\ args.decimals = 4
    /\ result = <<"0", ".", "0", "0", "0", "0">>

ReportRatios(r) ==
    IF r = NullReport THEN {}
    ELSE {p.s : p \in {q \in SeqSet(generateMarkdown(r)) : q.kind = "ratio"}}
            \cup {ViewTagSummary(r)}

\* the text toFixed gives for NaN or for Infinity, a percent sign after it or not
NotANumber(s) == s = RangeError \/ (Len(s) > 0 /\ s[1] \in {"N", "I", "-"})

\* C13: no ratio of a reachable report is computed with a zero denominator
\* unguarded: the tag lines, which divide by aggTotalRows directly, exist
\* only when aggTotalRows is above 0, and no NaN or Infinity appears among
\* the quotients of the markdown and of the view, zero-row partitions included.
C13_NoZeroDenominatorReachesOutput ==
    /\ (report # NullReport /\ Len(report.tagList) > 0) => report.aggTotalRows > 0
    /\ \A s \in ReportRatios(report) : ~NotANumber(s)

\* a single-day report of a partition with no rows, every quotient of it a zero
C13_Witness ==
    /\ report # NullReport
    /\ report.mode = "SINGLE"
    /\ report.aggTotalRows = 0
    /\ ReportRatios(report) = {<<"0", ".", "0", "0">>, <<"0", ".", "0", "0", "0", "0">>}

\* a percentage that counts as 0 when its denominator is 0
PercentOrZero(n, d) == IF d = 0 THEN <<0, 1>> ELSE Frac(n * 100, d)

\* the sum over the dates of D of the day's percentage of the field num in
\* the field den
RECURSIVE SumOfDayPercentages(_, _, _)
SumOfDayPercentages(D, num, den) ==
    IF D = {} THEN <<0, 1>>
    ELSE LET d == CHOOSE x \in D : TRUE
             day == report.dailyStatsMap[d]
         IN  FracAdd(PercentOrZero(day[num], day[den]),
                     SumOfDayPercentages(D \ {d}, num, den))

\* max(1, number of retained dates)
AverageDivisor == IF Len(report.dates) > 1 THEN Len(report.dates) ELSE 1

AveragedRate(num, den) ==
    formatDecimal(FracDiv(SumOfDayPercentages(SeqSet(report.dates), num, den),
                          AverageDivisor), 2) \o <<"%">>

\* C14: in weekly mode each averaged count is the summed total divided by
\* max(1, number of retained dates), and each averaged rate is the sum of the
\* per-day percentages (0 for a day whose denominator is 0) divided by the
\* same divisor.
C14_WeeklyAverages ==
    Weekly =>
        /\ report.avgStats.totalRows
              = formatDecimal(Frac(report.totalStats.totalRows, AverageDivisor), 2)
        /\ report.avgStats.machineRejectCount
              = formatDecimal(Frac(report.totalStats.machineRejectCount, AverageDivisor), 3)
        /\ report.avgStats.recallCount
              = formatDecimal(Frac(report.totalStats.recallCount, AverageDivisor), 2)
        /\ report.avgStats.humanViolationCount
              = formatDecimal(Frac(report.totalStats.humanViolationCount, AverageDivisor), 2)
        /\ report.avgStats.blackSampleTotal
              = formatDecimal(Frac(report.totalStats.blackSampleTotal, AverageDivisor), 0)
        /\ report.avgStats.recallRate = AveragedRate("recallCount", "totalRows")
        /\ report.avgStats.precision = AveragedRate("humanViolationCount", "recallCount")
        /\ report.avgStats.riskLevel = AveragedRate("blackSampleTotal", "totalRows")

\* a weekly report of two days, one of them without recall, whose averaged
\* precision is not the precision of the summed totals
C14_Witness ==
    /\ Weekly
    /\ Len(report.dates) = 2
    /\ \E d \in SeqSet(report.dates) : report.dailyStatsMap[d].recallCount = 0
    /\ report.avgStats.precision
          # formatPercent(report.totalStats.humanViolationCount,
                          report.totalStats.recallCount, 2) \o <<"%">>

\* the accumulators the weekly report was built from
MergedMaps == AccumulateDays(EmptyAgg, rawData, report.dates, 1)

\* a field of the entry of a strategy in the map of day d, 0 when the day lacks it
StrategyFieldOfDay(d, name, field) ==
    LET m == report.dailyStatsMap[d].strategyMap
    IN  IF \E i \in 1..Len(m) : m[i].name = name
        THEN m[CHOOSE i \in 1..Len(m) : m[i].name = name][field]
        ELSE 0

\* the sum of a strategy field over the retained days
StrategyFieldSum(name, field) ==
    SumOver(SeqSet(report.dates),
            [d \in SeqSet(report.dates) |-> StrategyFieldOfDay(d, name, field)])

\* the sum of the counts of a tag over the retained days
TagCountSum(tag) ==
    SumOver(SeqSet(report.dates),
            [d \in SeqSet(report.dates) |-> CountIn(report.dailyStatsMap[d].tagMap, tag)])

\* the strategy names and the tags of the retained days
DayStrategyNames ==
    UNION {{report.dailyStatsMap[d].strategyMap[i].name :
                i \in 1..Len(report.dailyStatsMap[d].strategyMap)}
            : d \in SeqSet(report.dates)}
DayTags ==
    UNION {{report.dailyStatsMap[d].tagMap[i][1] :
                i \in 1..Len(report.dailyStatsMap[d].tagMap)}
            : d \in SeqSet(report.dates)}

StrategyFields == {"hitCount", "humanReviewCount", "pendingCount", "violationCount"}

\* the merged strategy map has one entry per strategy of the retained days,
\* each field the sum of the days' fields
StrategiesMergedBySum(aggStrategyMap) ==
    /\ {aggStrategyMap[i].name : i \in 1..Len(aggStrategyMap)} = DayStrategyNames
    /\ Cardinality(DayStrategyNames) = Len(aggStrategyMap)
    /\ \A i \in 1..Len(aggStrategyMap) : \A f \in StrategyFields :
          aggStrategyMap[i][f] = StrategyFieldSum(aggStrategyMap[i].name, f)

\* the merged tag map has one entry per tag of the retained days, its count
\* the sum of the days' counts
TagsMergedBySum(aggTagMap) ==
    /\ {aggTagMap[i][1] : i \in 1..Len(aggTagMap)} = DayTags
    /\ Cardinality(DayTags) = Len(aggTagMap)
    /\ \A i \in 1..Len(aggTagMap) : aggTagMap[i][2] = TagCountSum(aggTagMap[i][1])

\* C15: in weekly mode each of the four fields of every merged strategy is
\* the sum of that field over the strategy maps of the retained days, the
\* merged count of every tag is the sum of its per-day counts, and a key is in
\* a merged map iff some retained day has it; the strategy list of the report
\* holds the merged entries.
C15_WeeklyMergeIsAdditive ==
    Weekly =>
        /\ StrategiesMergedBySum(MergedMaps.aggStrategyMap)
        /\ TagsMergedBySum(MergedMaps.aggTagMap)
        /\ StrategiesMergedBySum(report.strategyList)
        /\ \A i \in 1..Len(report.tagList) :
              report.tagList[i].count = TagCountSum(report.tagList[i].name)

\* a weekly report of two days: strategy s1 hit on both and merged to 2, a
\* strategy of one day only, tag A counted 1 and 2 and merged to 3, tag B of
\* one day only
C15_Witness ==
    /\ Weekly
    /\ Len(report.dates) = 2
    /\ \E i \in 1..Len(report.strategyList) :
          /\ report.strategyList[i].hitCount = 2
          /\ \A d \in SeqSet(report.dates) :
                StrategyFieldOfDay(d, report.strategyList[i].name, "hitCount") = 1
    /\ \E name \in DayStrategyNames : \E d \in SeqSet(report.dates) :
          StrategyFieldOfDay(d, name, "hitCount") = 0
    /\ \E i \in 1..Len(report.tagList) :
          /\ report.tagList[i].count = 3
          /\ \A d \in SeqSet(report.dates) :
                CountIn(report.dailyStatsMap[d].tagMap, report.tagList[i].name) > 0
    /\ \E tag \in DayTags : \E d \in SeqSet(report.dates) :
          CountIn(report.dailyStatsMap[d].tagMap, tag) = 0

\* the column a row's strategies are to be read from
StrategyColumn(row) ==
    IF TrimmedCell(row, COL_SYNC_STRATEGY) # <<>>
    THEN COL_SYNC_STRATEGY ELSE COL_ASYNC_STRATEGY

\* the strategy names a column of a row holds, one per non-empty trimmed token
ColumnStrategies(row, col) ==
    LET tokens == Split(TrimmedCell(row, col), <<"&", "&">>)
        named == SelectSeq([k \in 1..Len(tokens) |-> Trim(tokens[k])],
                           LAMBDA token : token # <<>>)
    IN  [k \in 1..Len(named) |-> MapStrategyName(named[k])]

\* the hit count of a strategy in the result, 0 when the map lacks it
HitCountOf(name) ==
    IF \E e \in 1..Len(stats.strategyMap) : stats.strategyMap[e].name = name
    THEN stats.strategyMap[CHOOSE e \in 1..Len(stats.strategyMap) :
                                stats.strategyMap[e].name = name].hitCount
    ELSE 0

\* the occurrences of a name in the column each row is to be read from
HitsInStrategyColumns(name) ==
    SumOver(1..Len(rows),
            [i \in 1..Len(rows) |->
                Len(SelectSeq(ColumnStrategies(rows[i], StrategyColumn(rows[i])),
                              LAMBDA n : n = name))])

\* every strategy name either column of a row holds
NamesOfBothColumns ==
    UNION {SeqSet(ColumnStrategies(rows[i], COL_SYNC_STRATEGY))
              \cup SeqSet(ColumnStrategies(rows[i], COL_ASYNC_STRATEGY))
            : i \in 1..Len(rows)}

\* C16: the strategies counted for a row come from one column, the
\* synchronous one when its trimmed value is non-empty and the asynchronous
\* one otherwise: every name of either column is counted as often as it
\* occurs in the rows' chosen columns, and no other name is counted.
C16_StrategiesFromOneColumn ==
    Analyzed =>
        /\ \A name \in NamesOfBothColumns : HitCountOf(name) = HitsInStrategyColumns(name)
        /\ \A e \in 1..Len(stats.strategyMap) :
              stats.strategyMap[e].name \in NamesOfBothColumns

\* a file with a row whose two columns both hold names, the asynchronous
\* name s1 counted nowhere, and a row whose blank synchronous value made the
\* asynchronous column count
C16_Witness ==
    /\ Analyzed
    /\ \E i \in 1..Len(rows) :
          /\ ColumnStrategies(rows[i], COL_SYNC_STRATEGY) # <<>>
          /\ ColumnStrategies(rows[i], COL_ASYNC_STRATEGY) = <<<<"s", "1">>>>
    /\ HitCountOf(<<"s", "1">>) = 0
    /\ \E i \in 1..Len(rows) :
          /\ COL_SYNC_STRATEGY \in DOMAIN rows[i]
          /\ StrategyColumn(rows[i]) = COL_ASYNC_STRATEGY
          /\ HitCountOf(<<"s", "2">>) = 2

\* the words the tag filter is to drop
StopList ==
    {<<"u901A", "u8FC7">>, <<"u62D2", "u7EDD">>, <<"u5F85", "u5BA1">>,
     <<"u9001", "u5BA1">>, <<"n", "u", "l", "l">>, <<"u65E0">>,
     <<"u5185", "u5BB9", "u6D89", "u53CA">>,
     <<"u8BF7", "u4FEE", "u6539", "u540E", "u91CD", "u8BD5">>}

TagKeys == {stats.tagMap[e][1] : e \in 1..Len(stats.tagMap)}

\* the tokens of the violation rows that are neither empty nor a stop word
CountableTags ==
    UNION {RowTagTokens(rows[i]) \ (StopList \cup {<<>>})
            : i \in {i \in 1..Len(rows) : RowHumanViolation(rows[i])}}

\* C17: tags are counted only for violation rows and only for tokens that
\* are non-empty after trimming and not in the stop list: the keys of the tag
\* map are exactly such tokens of violation rows, and no key is empty or a
\* stop word.
C17_OnlyValidTagsOfViolationRows ==
    Analyzed =>
        /\ TagKeys = CountableTags
        /\ TagKeys \cap (StopList \cup {<<>>}) = {}
        /\ (\A i \in 1..Len(rows) : ~RowHumanViolation(rows[i])) => stats.tagMap = <<>>

\* a violation row whose tokens include stop words and an empty token, and a
\* row that is no violation and names a tag: the tag map holds A and B once
C17_Witness ==
    /\ Analyzed
    /\ \E i \in 1..Len(rows) :
          /\ RowHumanViolation(rows[i])
          /\ RowTagTokens(rows[i]) \cap StopList # {}
    /\ \E i \in 1..Len(rows) :
          /\ ~RowHumanViolation(rows[i])
          /\ <<"A">> \in RowTagTokens(rows[i])
    /\ stats.tagMap = << <<<<"A">>, 1>>, <<<<"B">>, 1>> >>

\* the dates of the scope of the report, in the order they are gone through
ScopeDates == IF Weekly THEN report.dates ELSE <<report.dateLabel>>

\* the rows of the scope of the report, and the place of a row's date in it
ScopeRows ==
    {i \in 1..Len(rawData) :
        extractDate(RowGet(rawData[i], COL_TIME)) \in SeqSet(ScopeDates)}
DateIndex(i) ==
    CHOOSE k \in 1..Len(ScopeDates) :
        ScopeDates[k] = extractDate(RowGet(rawData[i], COL_TIME))

\* first date, then first row of it, among the rows numbered in hits
FirstRowOf(hits) ==
    LET k == SetMin({DateIndex(i) : i \in hits})
    IN  <<k, SetMin({i \in hits : DateIndex(i) = k})>>

\* where a tag is inserted: date, row and token of its first appearance
TagFirstSeen(tag) ==
    LET at == FirstRowOf({i \in ScopeRows : /\ RowHumanViolation(rawData[i])
                                            /\ tag \in RowTagTokens(rawData[i])})
        tokens == TagSplit(RowGet(rawData[at[2]], COL_TAGS))
    IN  <<at[1], at[2], SetMin({p \in 1..Len(tokens) : Trim(tokens[p]) = tag})>>

\* where a strategy is inserted: date, row and token of its first appearance
StrategyFirstSeen(name) ==
    LET at == FirstRowOf({i \in ScopeRows :
                            name \in SeqSet(ColumnStrategies(rawData[i],
                                                             StrategyColumn(rawData[i])))})
        names == ColumnStrategies(rawData[at[2]], StrategyColumn(rawData[at[2]]))
    IN  <<at[1], at[2], SetMin({p \in 1..Len(names) : names[p] = name})>>

\* a comes before b: by date, then row, then token
Earlier(a, b) ==
    \/ a[1] < b[1]
    \/ a[1] = b[1] /\ a[2] < b[2]
    \/ a[1] = b[1] /\ a[2] = b[2] /\ a[3] < b[3]

\* the count of a tag over the scope of the report
ScopeTagCount(tag) ==
    IF Weekly THEN TagCountSum(tag) ELSE CountIn(report.singleStats.tagMap, tag)

ListedTags == {report.tagList[e].name : e \in 1..Len(report.tagList)}

\* C18: the strategy list is in non-increasing order of hitCount and the tag
\* list in non-increasing order of count, entries with equal counts in the
\* order of first insertion (dates ascending, then rows, then tokens), and a
\* tag that the cut to 35 leaves out has a lower count than the last listed
\* tag, or the same count and a later insertion.
C18_DescendingAndStable ==
    (Weekly \/ Single) =>
        /\ \A e \in 1..(Len(report.strategyList) - 1) :
              \/ report.strategyList[e].hitCount > report.strategyList[e + 1].hitCount
              \/ /\ report.strategyList[e].hitCount = report.strategyList[e + 1].hitCount
                 /\ Earlier(StrategyFirstSeen(report.strategyList[e].name),
                            StrategyFirstSeen(report.strategyList[e + 1].name))
        /\ \A e \in 1..(Len(report.tagList) - 1) :
              \/ report.tagList[e].count > report.tagList[e + 1].count
              \/ /\ report.tagList[e].count = report.tagList[e + 1].count
                 /\ Earlier(TagFirstSeen(report.tagList[e].name),
                            TagFirstSeen(report.tagList[e + 1].name))
        /\ \A tag \in TagUniverse \ ListedTags :
              \/ ScopeTagCount(tag) < report.tagList[Len(report.tagList)].count
              \/ /\ ScopeTagCount(tag) = report.tagList[Len(report.tagList)].count
                 /\ Earlier(TagFirstSeen(report.tagList[Len(report.tagList)].name),
                            TagFirstSeen(tag))

\* a weekly report over 37 tags of count 1: the 35 listed ones are those
\* inserted first, and two tags of the later day are left out
C18_Witness ==
    /\ Weekly
    /\ Len(report.dates) = 2
    /\ Cardinality(TagUniverse) = 37
    /\ Len(report.tagList) = 35
    /\ \A e \in 1..35 : report.tagList[e].count = 1
    /\ \A tag \in TagUniverse \ ListedTags :
          /\ ScopeTagCount(tag) = 1
          /\ TagFirstSeen(tag)[1] = 2

\* the time of row i, empty when the row has none
TimeOf(i) == IF COL_TIME \in DOMAIN rawData[i] THEN rawData[i][COL_TIME] ELSE <<>>

CharAt(s, i) == IF i \in 1..Len(s) THEN s[i] ELSE ""

DigitChars == {"0", "1", "2", "3", "4", "5", "6", "7", "8", "9"}

\* s holds four digits, a year separator, one or two digits, a month
\* separator and a digit
HasDateMatch(s) ==
    \E i \in 1..Len(s) : \E ml \in {1, 2} :
        /\ \A k \in 0..3 : CharAt(s, i + k) \in DigitChars
        /\ CharAt(s, i + 4) \in {".", "-", "/", "u5E74"}
        /\ \A k \in 0..(ml - 1) : CharAt(s, i + 5 + k) \in DigitChars
        /\ CharAt(s, i + 5 + ml) \in {".", "-", "/", "u6708"}
        /\ CharAt(s, i + 6 + ml) \in DigitChars

\* YYYY-MM-DD: ten characters, digits around two hyphens
Canonical(d) ==
    /\ Len(d) = 10
    /\ d[5] = "-" /\ d[8] = "-"
    /\ \A k \in {1, 2, 3, 4, 6, 7, 9, 10} : d[k] \in DigitChars

\* year, month and day of a canonical date as one number
DateNumber(d) ==
    DigitsValue(SubSeq(d, 1, 4)) * 10000 + DigitsValue(SubSeq(d, 6, 7)) * 100
        + DigitsValue(SubSeq(d, 9, 10))

\* the rows with a date match whose date is d
MatchedRowsOf(d) ==
    {i \in 1..Len(rawData) : HasDateMatch(TimeOf(i)) /\ extractDate(TimeOf(i)) = d}

\* C19: every date extractDate returns has the shape YYYY-MM-DD with month
\* and day padded to two digits, so the sorted available dates are in
\* chronological order; a time without a year/month/day match gives null, and
\* its row is counted in no date partition.
C19_CanonicalDatesAndNoPartitionWithoutDate ==
    /\ \A i \in 1..Len(rawData) :
          IF HasDateMatch(TimeOf(i))
          THEN /\ extractDate(RowGet(rawData[i], COL_TIME)) # Null
               /\ Canonical(extractDate(RowGet(rawData[i], COL_TIME)))
               /\ extractDate(RowGet(rawData[i], COL_TIME)) \in SeqSet(availableDates)
          ELSE extractDate(RowGet(rawData[i], COL_TIME)) = Null
    /\ \A k \in 1..Len(availableDates) : Canonical(availableDates[k])
    /\ \A k \in 1..(Len(availableDates) - 1) :
          DateNumber(availableDates[k]) < DateNumber(availableDates[k + 1])
    /\ Weekly => \A d \in SeqSet(report.dates) :
          report.dailyStatsMap[d].totalRows = Cardinality(MatchedRowsOf(d))
    /\ Single => report.singleStats.totalRows = Cardinality(MatchedRowsOf(selectedDate))

\* three rows: one of 2024/3/2, one of the tenth of the same month written
\* without padding, one whose time holds no date; the dates come out padded
\* and in order, and the weekly report counts two rows
C19_Witness ==
    /\ Weekly
    /\ Len(rawData) = 3
    /\ \E i \in 1..3 : ~HasDateMatch(TimeOf(i)) /\ Len(TimeOf(i)) > 0
    /\ availableDates = <<<<"2", "0", "2", "4", "-", "0", "3", "-", "0", "2">>,
                          <<"2", "0", "2", "4", "-", "0", "3", "-", "1", "0">>>>
    /\ \E i \in 1..3 : TimeOf(i) = DAY3
    /\ report.totalStats.totalRows = 2

\* the rows that are machine-rejected or decided as a human violation
BlackSampleRows ==
    {i \in 1..Len(rows) : RowMachineRejected(rows[i]) \/ RowHumanViolation(rows[i])}

\* C20: blackSampleTotal counts rows, each machine-rejected or human-violation
\* row once, so it is at most totalRows and the risk level is at most 100%.
C20_BlackSamplesAreRows ==
    Analyzed =>
        /\ stats.blackSampleTotal = Cardinality(BlackSampleRows)
        /\ stats.blackSampleTotal <= stats.totalRows

\* the rows whose extracted date is d, and those whose date is retained
DayRows(d) ==
    {i \in 1..Len(rawData) : extractDate(RowGet(rawData[i], COL_TIME)) = d}
RetainedRows ==
    {i \in 1..Len(rawData) :
        extractDate(RowGet(rawData[i], COL_TIME)) \in SeqSet(report.dates)}

\* the basic counts and the strategy and tag counts of s are those of the
\* rows numbered in R, and of no other row
CountsOfExactly(s, R) ==
    /\ s.totalRows = Cardinality(R)
    /\ s.machineRejectCount = Cardinality({i \in R : RowMachineRejected(rawData[i])})
    /\ s.recallCount = Cardinality({i \in R : RowHumanSent(rawData[i])})
    /\ s.humanViolationCount = Cardinality({i \in R : RowHumanViolation(rawData[i])})
    /\ \A e \in 1..Len(s.strategyMap) :
          s.strategyMap[e].hitCount
              = Cardinality(StrategyOccurrences(rawData, s.strategyMap[e].name, R))
    /\ \A e \in 1..Len(s.tagMap) :
          s.tagMap[e][2]
              = Cardinality({i \in R : /\ RowHumanViolation(rawData[i])
                                       /\ s.tagMap[e][1] \in RowTagTokens(rawData[i])})

\* C21: in weekly mode the retained dates are in ascending order, the
\* BasicStats of each is computed from exactly the rows whose extracted date
\* is that date, and rows without a date or of a dropped date count in no
\* daily column, no total and no strategy or tag count: totalRows is the
\* number of rows whose date is retained.
C21_WeeklyPartitionsAreExact ==
    Weekly =>
        /\ \A k \in 1..(Len(report.dates) - 1) :
              DateNumber(report.dates[k]) < DateNumber(report.dates[k + 1])
        /\ DOMAIN report.dailyStatsMap = SeqSet(report.dates)
        /\ \A d \in SeqSet(report.dates) :
              CountsOfExactly(report.dailyStatsMap[d], DayRows(d))
        /\ report.totalStats.totalRows = Cardinality(RetainedRows)
        /\ report.totalStats.machineRejectCount
              = Cardinality({i \in RetainedRows : RowMachineRejected(rawData[i])})
        /\ \A e \in 1..Len(report.strategyList) :
              report.strategyList[e].hitCount
                  = Cardinality(StrategyOccurrences(rawData, report.strategyList[e].name,
                                                    RetainedRows))
        /\ \A e \in 1..Len(report.tagList) :
              report.tagList[e].count
                  = Cardinality({i \in RetainedRows :
                                    /\ RowHumanViolation(rawData[i])
                                    /\ report.tagList[e].name \in RowTagTokens(rawData[i])})

\* a weekly report of 153 rows that keeps one date of three: two rows are of
\* dropped dates and one has no date, and totalRows is 150
C21_Witness ==
    /\ Weekly
    /\ Len(rawData) = 153
    /\ Len(availableDates) = 3
    /\ Len(report.dates) = 1
    /\ \E i \in 1..Len(rawData) : extractDate(RowGet(rawData[i], COL_TIME)) = Null
    /\ report.totalStats.totalRows = 150

\* pendingCount + violationCount <= humanReviewCount <= hitCount
StrategyChain(s) ==
    /\ s.pendingCount + s.violationCount <= s.humanReviewCount
    /\ s.humanReviewCount <= s.hitCount

\* every entry of a strategy map satisfies the chain
ChainHolds(strategyMap) == \A e \in 1..Len(strategyMap) : StrategyChain(strategyMap[e])

\* C22: every strategy entry analyzeRows produced for a partition, and every
\* entry of the weekly merged map, satisfies
\* pendingCount + violationCount <= humanReviewCount <= hitCount.
C22_StrategyCounterChain ==
    /\ Weekly =>
          /\ \A d \in SeqSet(report.dates) : ChainHolds(report.dailyStatsMap[d].strategyMap)
          /\ ChainHolds(MergedMaps.aggStrategyMap)
    /\ Single => ChainHolds(report.singleStats.strategyMap)
    /\ (Weekly \/ Single) => ChainHolds(report.strategyList)

\* a weekly report of two days with a merged strategy hit on both days that
\* has pending rows and violations, their sum within the reviewed hits
C22_Witness ==
    /\ Weekly
    /\ Len(report.dates) = 2
    /\ \E e \in 1..Len(report.strategyList) :
          /\ report.strategyList[e].pendingCount > 1
          /\ report.strategyList[e].violationCount > 1
          /\ report.strategyList[e].hitCount
                >= report.strategyList[e].pendingCount
                      + report.strategyList[e].violationCount
          /\ \A d \in SeqSet(report.dates) :
                StrategyFieldOfDay(d, report.strategyList[e].name, "hitCount") > 0

\* no count of the tag map is above the violations
TagsWithin(tagMap, violations) == \A e \in 1..Len(tagMap) : tagMap[e][2] <= violations

\* C23: in every report each tag's count is at most the humanViolationCount
\* of the same scope, per day and over the report, so no violation share is
\* above 100%; and a report with a tag has violations and rows.
C23_TagCountWithinViolations ==
    /\ Weekly =>
          \A d \in SeqSet(report.dates) :
              TagsWithin(report.dailyStatsMap[d].tagMap,
                         report.dailyStatsMap[d].humanViolationCount)
    /\ Single =>
          TagsWithin(report.singleStats.tagMap, report.singleStats.humanViolationCount)
    /\ (Weekly \/ Single) =>
          /\ \A e \in 1..Len(report.tagList) :
                report.tagList[e].count <= report.aggHumanViolationCount
          /\ Len(report.tagList) > 0 =>
                /\ report.aggHumanViolationCount > 0
                /\ report.aggTotalRows > 0

\* a weekly report of two days with three violations: one tag on all three
\* rows, its share 100%, and one tag on two
C23_Witness ==
    /\ Weekly
    /\ Len(report.dates) = 2
    /\ report.aggHumanViolationCount = 3
    /\ \E e \in 1..Len(report.tagList) : report.tagList[e].count = 3
    /\ \E e \in 1..Len(report.tagList) : report.tagList[e].count = 2
    /\ \E p \in SeqSet(generateMarkdown(report)) :
          p.kind = "ratio" /\ p.s = <<"1", "0", "0", ".", "0", "0", "0", "0">>

\* the available dates with the largest number of rows
BusiestDates ==
    {d \in SeqSet(availableDates) :
        \A other \in SeqSet(availableDates) : RowCountOfDate(other) <= RowCountOfDate(d)}

\* C24: the noise filter never removes every date: the dates with the
\* largest row count are retained, so the retained dates are empty only if
\* the available dates are.
C24_BusiestDateIsRetained ==
    Weekly =>
        /\ BusiestDates \subseteq SeqSet(report.dates)
        /\ Len(report.dates) = 0 => Len(availableDates) = 0

\* the filter has dropped two dates of three and kept the one with the
\* most rows
C24_Witness ==
    /\ Weekly
    /\ Len(availableDates) = 3
    /\ Len(report.dates) = 1
    /\ SeqSet(report.dates) = BusiestDates
    /\ RowCountOfDate(report.dates[1]) > 100

\* the rows of the retained dates from date k on, date after date
RECURSIVE RetainedConcat(_)
RetainedConcat(k) ==
    IF k > Len(report.dates) THEN <<>>
    ELSE SelectSeq(rawData,
                   LAMBDA r : extractDate(RowGet(r, COL_TIME)) = report.dates[k])
            \o RetainedConcat(k + 1)

\* the accumulators of the weekly loop and the totals of the report are what
\* one aggregation returned
RollupAgrees(agg, once) ==
    /\ report.totalStats
          = [totalRows |-> once.totalRows,
             machineRejectCount |-> once.machineRejectCount,
             recallCount |-> once.recallCount,
             humanViolationCount |-> once.humanViolationCount,
             blackSampleTotal |-> once.blackSampleTotal]
    /\ agg.aggStrategyMap = once.strategyMap
    /\ agg.aggTagMap = once.tagMap

\* C25: the weekly rollup agrees with a single aggregation: totalStats and
\* the merged strategy and tag maps are the BasicStats, the strategy map and
\* the tag map analyzeRows returns for the rows of the retained dates put
\* one date after the other.
C25_RollupEqualsOneAggregation ==
    Weekly => RollupAgrees(MergedMaps, analyzeRows(RetainedConcat(1)))

\* a weekly report of two days of three rows in all, with a strategy and a
\* tag that both days have
C25_Witness ==
    /\ Weekly
    /\ Len(report.dates) = 2
    /\ report.totalStats.totalRows = 3
    /\ \E name \in DayStrategyNames : \A d \in SeqSet(report.dates) :
          StrategyFieldOfDay(d, name, "hitCount") > 0
    /\ \E tag \in DayTags : \A d \in SeqSet(report.dates) :
          CountIn(report.dailyStatsMap[d].tagMap, tag) > 0

\* C26: after any sequence of file choices, parses, encoding changes and date
\* selections, selectedDate is the weekly key or one of the current
\* availableDates, and no single-day report is computed for a date that
\* matches none of the current rows.
C26_SelectionMatchesLoadedData ==
    /\ selectedDate = WEEKLY_KEY \/ selectedDate \in SeqSet(availableDates)
    /\ report # NullReport /\ report.mode = "SINGLE" => report.singleStats.totalRows > 0

\* C27: under any interleaving of file choices with a parse in flight, the
\* rows held in rawData are rows of the currently selected file, parsed with
\* one of the encodings.
C27_RowsOfSelectedFile ==
    \/ Len(rawData) = 0
    \/ file # 0 /\ \E e \in Encodings : rawData = ParseResult(file, e)

=============================================================================
